---- MODULE Spec2Model ----
(***************************************************************************)
(* seedcat: the candidate-space enumerators.                               *)
(*                                                                         *)
(*   src/src/permutations.rs   Permutations<T>  (k-permutations, sharding) *)
(*   src/src/combination.rs    Combinations<T>  (cartesian product layered *)
(*                             over a Permutations of the permutable       *)
(*                             positions, sharding, total/begin/end)       *)
(*                                                                         *)
(* Vectors are sequences.  The source indexes from 0, sequences from 1:    *)
(* every index kept in the state is the source's 0-based index and At      *)
(* does the shift.  u64/usize values are unbounded integers here; the      *)
(* bounds below keep every product far below 2^31, so no saturating_mul    *)
(* of the source saturates in the model.                                   *)
(***************************************************************************)
EXTENDS Integers, Sequences, FiniteSets, TLC

VARIABLES
    perm,        \* the Permutations being iterated (tests::assert_explode)
    perm_out,    \* tuples its next() has returned so far, in order
    perm_none,   \* how many times its next() has returned None
    num,         \* argument of the shard(num) call, 0 before the call
    shards,      \* the Vec<Permutations> returned by shard(num)
    shard_cur,   \* 0-based index of the shard being iterated
    shard_out,   \* tuples returned by the shards so far, in order
    shard_calls, \* next() calls made on the current shard
    comb,        \* a Combinations as constructed (tests: `combinations`)
    comb_iter,   \* its clone being iterated (tests::expand: `seed`)
    comb_out,    \* tuples comb_iter.next() has returned so far, in order
    comb_used,   \* for each of them, self.permutation as next() was entered
    comb_none,   \* how many times comb_iter.next() has returned None
    report,      \* total(), begin() and end() of comb, once asked
    comb_num,    \* argument of comb.shard(num), 0 before the call
    comb_shards, \* the Vec<Combinations> returned by comb.shard(num)
    comb_shard_out, \* for each shard, the tuples it returns until None
    pass_args,     \* the --passphrase arguments (Vec<String>)
    pass_charsets, \* the custom charsets (Vec<Option<String>>)
    pass,          \* what Passphrase::from_arg returned, <<>> before the call
    pass_bin,      \* an add_binary_charsets call on pass and what it returned
    charsets_bin,  \* a UserCharsets::add_binary_charsets call and its result
    deriv_kind,    \* kind.derivations of the address kind
    deriv_arg,     \* the --derivation argument (Option<String>)
    deriv,         \* what AddressValid::derivation returned, <<>> before
    ratio,         \* hash_ratio() of the derivations, <<>> before the call
    seed_words,    \* the indices matching each word of the --seed argument
    seed_anchored, \* the positions of the words written with '^'
    seed_combo,    \* the --combinations argument (Option<usize>)
    seed_new,      \* what Seed::from_args returned, <<>> before the call
    seed_iter,     \* the seed being iterated with next_valid()
    seed_out,      \* what next_valid() has returned so far, and the tuples
    seed_none,     \* how many times next_valid() has returned None
    seed_valid,    \* total() and valid_seeds() of seed, once asked
    seed_bin,      \* a binary_charsets call on seed and what it returned
    hc_mode,       \* the Hashcat built of seed and what get_mode returned
    enc_words,     \* the Vec<Vec<u32>> given to Seed::from_vecs
    enc_out,       \* what next() and encode_words returned, <<>> before
    found_arg,     \* the Option<String> given to Seed::found
    found_out,     \* the seed asked and what found returned, <<>> before
    hc_run,        \* a call of Hashcat::run: where it is and what it holds
    args_arg,      \* the --seed argument as it is typed
    args_combo,    \* the --combinations argument given with it
    args_ret,      \* what Seed::from_args came to on them, <<>> before
    feed,          \* a stdin_sender task, its channels and hashcat's stdin
    prod,          \* the tasks sending candidates and their channel
    timer_task,    \* a Timer, the calls made on it and its task
    shard_run,     \* a call of Permutations::shard, turn by turn of its loop
    pipe,          \* the tasks of a run and the channels between them
    hc_new,        \* the arguments of Hashcat::new and what it built
    panic        \* an assert! of the source has failed

permVars == <<perm, perm_out, perm_none, num, shards, shard_cur, shard_out,
              shard_calls>>
combVars == <<comb, comb_iter, comb_out, comb_used, comb_none, report,
              comb_num, comb_shards, comb_shard_out>>
passVars == <<pass_args, pass_charsets, pass, pass_bin, charsets_bin>>
derivVars == <<deriv_kind, deriv_arg, deriv, ratio>>
seedVars == <<seed_words, seed_anchored, seed_combo, seed_new, seed_iter,
              seed_out, seed_none, seed_valid, seed_bin, hc_mode>>
planVars == <<passVars, derivVars, seedVars>>
encVars == <<enc_words, enc_out>>
foundVars == <<found_arg, found_out>>
argsVars == <<args_arg, args_combo, args_ret>>
taskVars == <<feed, prod>>
sysVars == <<timer_task, shard_run, pipe, hc_new>>
runVars == <<encVars, foundVars, hc_run, argsVars, taskVars, sysVars>>
vars == <<permVars, combVars, planVars, runVars, panic>>

(***************************************************************************)
(* Bounds of the model.                                                    *)
(***************************************************************************)
MaxN == 4       \* permutation elements are drawn from 0 .. MaxN - 1
MaxNum == 6     \* largest shard count asked of Permutations::shard
MaxNone == 2    \* next() calls made after the enumeration should be over
MaxPos == 3     \* a Combinations has at most MaxPos choice sets
MaxChoice == 2  \* a choice set has at most MaxChoice values
MaxProduct == 4 \* the sizes of the choice sets multiply to at most this
MaxArgLen == 2  \* a passphrase argument has at most MaxArgLen characters
MaxGuesses == 3 \* largest number of guesses asked of add_binary_charsets
MaxBits == 25   \* 2048^(guesses - 1) * 2^entropy_bits is at most 2^MaxBits
DictLines == 3  \* the dictionary file has DictLines lines
MaxNode == 3    \* the largest number after '?' in a derivation path element
MaxElems == 4   \* a --derivation argument has at most MaxElems elements
ManyWords == 50 \* the words that a seed word prefix matches
MaxExact == 128 \* a seed iterated or counted exactly has at most MaxExact tuples
MaxPlanned == 8 \* a seed of a planned run counted exactly has at most this
MaxFields == 4  \* the output that found() is given has at most MaxFields fields
MaxLines == 2   \* the lines of the output of hashcat that run_stdout reads
MaxTokens == 2  \* the words of a --seed argument typed with patterns
MaxCombo == 25  \* --combinations counts run from 11 to MaxCombo
MaxSupplied == 33  \* the most words typed with --combinations
MaxSeeds == 2   \* the seed candidates that a stdin_sender receives
MaxPassphrases == 4  \* the passphrases that hashcat --stdout prints
MaxMem == 2     \* the passphrases kept in memory (10_000_000 in the source)
MaxChannel == 2 \* the capacity of a channel (100 in the source)
MaxBytes == 7   \* the bytes buffered before a write (1000 in the source)
MaxSenders == 2 \* the tasks sending seeds (1000 in the source)
MaxItems == 2   \* the candidates that a seed gives to its task
U64_BITS == 4   \* the width of a u64 (64 in the source)
MaxMultiplier == 2  \* the largest multiplier of a Timer
MaxAdds == 3    \* the calls of add() made on a Timer
MaxPushed == 12 \* the shards that a loop of shard() is followed for
MaxDerivationArgs == 2  \* the derivation arguments of a run
MaxSent == 3    \* the seeds that the shard tasks of a run send in all

(***************************************************************************)
(* Vec helpers.                                                            *)
(***************************************************************************)
At(s, i) == s[i + 1]

Max(S) == CHOOSE x \in S : \A y \in S : y <= x

Min2(a, b) == IF a <= b THEN a ELSE b

Some(v) == [some |-> TRUE, val |-> v]

None == [some |-> FALSE, val |-> <<>>]

\* the ascending Vec of a set of integers (BTreeSet iteration order)
RECURSIVE SetToSeq(_)
SetToSeq(S) ==
    IF S = {} THEN <<>>
    ELSE LET m == Max(S) IN Append(SetToSeq(S \ {m}), m)

\* list.sort()
sort(list) == SortSeq(list, LAMBDA a, b : a < b)

\* list.swap(i, j)
swap(list, i, j) ==
    [list EXCEPT ![i + 1] = At(list, j), ![j + 1] = At(list, i)]

(***************************************************************************)
(* permutations.rs: counting.                                              *)
(***************************************************************************)
\* FACTORIAL[0..=20] of the source; the entries above 12! do not fit the
\* checker's integers and are never indexed under the bounds.
FACTORIAL ==
    <<1, 1, 2, 6, 24, 120, 720, 5040, 40320, 362880, 3628800, 39916800,
      479001600>>

RECURSIVE n_permute_k_loop(_, _, _)
n_permute_k_loop(i, n, end) ==
    IF i > n THEN end ELSE n_permute_k_loop(i + 1, n, end * i)

n_permute_k(n, k) == n_permute_k_loop(n - k + 1, n, 1)

RECURSIVE n_choose_k_fold(_, _, _, _)
n_choose_k_fold(val, end, n, acc) ==
    IF val > end THEN acc
    ELSE n_choose_k_fold(val + 1, end, n, (acc * (n - val + 1)) \div val)

n_choose_k(n, k) ==
    IF k > n THEN 0
    ELSE IF n <= 20
         THEN (At(FACTORIAL, n) \div At(FACTORIAL, k)) \div At(FACTORIAL, n - k)
         ELSE n_choose_k_fold(1, Min2(k, n - k), n, 1)

(***************************************************************************)
(* permutations.rs: indexed_combination, indexed_permutation,              *)
(* next_permutation.                                                       *)
(***************************************************************************)
\* the inner while loop: <<r, cs>> when it exits
RECURSIVE indexed_combination_while(_, _, _, _, _)
indexed_combination_while(r, cs, n, k, s) ==
    IF r > n_choose_k(n - cs, k - s)
    THEN indexed_combination_while(r - n_choose_k(n - cs, k - s), cs + 1,
                                   n, k, s)
    ELSE <<r, cs>>

RECURSIVE indexed_combination_for(_, _, _, _, _, _)
\* the end of one round of the for loop; w is <<r, cs>> after the while
indexed_combination_push(s, w, combo, n, k) ==
    indexed_combination_for(s + 1, w[1], w[2], Append(combo, w[2] - 1), n, k)

indexed_combination_for(s, r, j, combo, n, k) ==
    IF s > k THEN combo
    ELSE indexed_combination_push(
             s, indexed_combination_while(r, j + 1, n, k, s), combo, n, k)

\* the two assert! lines of indexed_combination
indexed_combination_asserts(i, n, k) == n >= k /\ i < n_choose_k(n, k)

indexed_combination(i, n, k) == indexed_combination_for(1, i + 1, 0, <<>>, n, k)

\* the 'outer loop: the first unused slot once counter drops below zero
RECURSIVE indexed_permutation_outer(_, _, _)
indexed_permutation_outer(used, counter, result_index) ==
    IF ~At(used, result_index)
    THEN IF counter - 1 < 0
         THEN result_index
         ELSE indexed_permutation_outer(used, counter - 1, result_index + 1)
    ELSE indexed_permutation_outer(used, counter, result_index + 1)

\* the for loop: result_indices, a map result_index -> i
RECURSIVE indexed_permutation_for(_, _, _, _, _, _)
indexed_permutation_for(i, size, index, lower, used, result_indices) ==
    IF i >= size THEN result_indices
    ELSE LET bigger  == lower
             lower2  == At(FACTORIAL, size - i - 1)
             counter == (index % bigger) \div lower2
             result_index == indexed_permutation_outer(used, counter, 0)
         IN  indexed_permutation_for(
                 i + 1, size, index, lower2,
                 [used EXCEPT ![result_index + 1] = TRUE],
                 [result_indices EXCEPT ![result_index + 1] = i])

\* the assert! line of indexed_permutation
indexed_permutation_asserts(index, size) == index < At(FACTORIAL, size)

indexed_permutation(index, list) ==
    LET size   == Len(list)
        sorted == sort(list)
        result_indices ==
            indexed_permutation_for(0, size, index, At(FACTORIAL, size),
                                    [x \in 1..size |-> FALSE],
                                    [x \in 1..size |-> 0])
    IN  \* result: key result_indices[index] -> element, read in key order
        [pos \in 1..size |->
            sorted[CHOOSE idx \in 1..size : result_indices[idx] = pos - 1]]

\* while i < j { list.swap(i, j); i += 1; j -= 1 }
RECURSIVE next_permutation_reverse(_, _, _)
next_permutation_reverse(list, i, j) ==
    IF i < j THEN next_permutation_reverse(swap(list, i, j), i + 1, j - 1)
    ELSE list

\* the positions i with list[i] < list[i + 1] (the first for loop breaks at
\* the largest of them)
next_permutation_ascents(list) ==
    {i \in 0..(Len(list) - 2) : At(list, i) < At(list, i + 1)}

\* the second for loop: the largest i with list[largest_index] < list[i]
next_permutation_index2(list, largest_index) ==
    Max({i \in 0..(Len(list) - 1) : At(list, largest_index) < At(list, i)})

\* mutant: the suffix after the pivot is left in descending order
next_permutation_swap_no_reverse(list, largest_index, largest_index2) ==
    swap(list, largest_index, largest_index2)

\* the swap and the reversal of the suffix
next_permutation_swap(list, largest_index, largest_index2) ==
    next_permutation_reverse(swap(list, largest_index, largest_index2),
                             largest_index + 1, Len(list) - 1)

\* next_permutation once largest_index is found
next_permutation_from(list, largest_index) ==
    [list |-> next_permutation_swap(
                  list, largest_index,
                  next_permutation_index2(list, largest_index)),
     ret |-> TRUE]

\* [list |-> the list afterwards, ret |-> the bool returned]
next_permutation(list) ==
    IF next_permutation_ascents(list) = {}
    THEN [list |-> list, ret |-> FALSE]
    ELSE next_permutation_from(list, Max(next_permutation_ascents(list)))

(***************************************************************************)
(* permutations.rs: struct Permutations and its methods.                   *)
(***************************************************************************)
\* mutant: the shard forgets its offset inside the k! block
Permutations_new_shard_block_start(elements, k, index, len) ==
    LET k_permutations == n_permute_k(k, k)
    IN  [elements          |-> elements,
         indices           |-> <<>>,
         combination_index |-> index \div k_permutations,
         permutation_index |-> 0,
         len               |-> len,
         k_permutations    |-> k_permutations,
         k                 |-> k,
         index             |-> index]

\* mutant: a shard that starts one combination too far
Permutations_new_shard_block_after(elements, k, index, len) ==
    LET k_permutations == n_permute_k(k, k)
    IN  [elements          |-> elements,
         indices           |-> <<>>,
         combination_index |-> (index \div k_permutations) + 1,
         permutation_index |-> index % k_permutations,
         len               |-> len,
         k_permutations    |-> k_permutations,
         k                 |-> k,
         index             |-> index]

Permutations_new_shard(elements, k, index, len) ==
    LET k_permutations == n_permute_k(k, k)
    IN  [elements          |-> elements,
         indices           |-> <<>>,
         combination_index |-> index \div k_permutations,
         permutation_index |-> index % k_permutations,
         len               |-> len,
         k_permutations    |-> k_permutations,
         k                 |-> k,
         index             |-> index]

Permutations_new(elements, k) ==
    Permutations_new_shard(elements, k, 0, n_permute_k(Len(elements), k))

Permutations_len(p) == p.len

RECURSIVE Permutations_shard_while(_, _, _, _)
Permutations_shard_while(p, shard_size, index, acc) ==
    IF index < p.len
    THEN Permutations_shard_while(
             p, shard_size, index + shard_size,
             Append(acc, Permutations_new_shard(
                             p.elements, p.k, index,
                             Min2(p.len, index + shard_size))))
    ELSE acc

\* mutant: the shard size rounded up instead of down
Permutations_shard_round_up(p, n) ==
    Permutations_shard_while(p, (p.len \div n) + 1, 0, <<>>)

\* shard(num); the while loop only ends when shard_size > 0, that is when
\* num <= len (the callers of this operator keep to that)
Permutations_shard(p, n) ==
    Permutations_shard_while(p, p.len \div n, 0, <<>>)

\* whether the assert! lines reached from next_combo hold
next_combo_asserts(p) ==
    /\ indexed_combination_asserts(p.combination_index, Len(p.elements), p.k)
    /\ indexed_permutation_asserts(p.permutation_index, p.k)

\* next_combo once indexed_combination has returned indices
next_combo_of(p, indices) ==
    [p EXCEPT !.indices =
        indexed_permutation(
            p.permutation_index,
            [x \in 1..Len(indices) |-> At(p.elements, indices[x])])]

next_combo(p) ==
    next_combo_of(p, indexed_combination(p.combination_index,
                                         Len(p.elements), p.k))

next_perm(p) ==
    IF p.permutation_index = p.k_permutations - 1
    THEN next_combo([p EXCEPT !.combination_index = @ + 1,
                              !.permutation_index = 0])
    ELSE [p EXCEPT !.permutation_index = @ + 1,
                   !.indices = next_permutation(p.indices).list]

\* whether this call of next() runs into a failing assert!
Permutations_next_panics(p) ==
    IF p.indices = <<>> THEN ~next_combo_asserts(p)
    ELSE /\ p.index + 1 < p.len
         /\ p.permutation_index = p.k_permutations - 1
         /\ ~next_combo_asserts([p EXCEPT !.combination_index = @ + 1,
                                          !.permutation_index = 0])

\* return Some(&self.indices)
Permutations_some(p) == [p |-> p, ret |-> Some(p.indices)]

\* mutant: None one ordinal early
Permutations_next_rest_early(p) ==
    IF p.index >= p.len - 1
    THEN [p |-> p, ret |-> None]
    ELSE Permutations_some(next_perm(p))

\* next() after self.index += 1
Permutations_next_rest(p) ==
    IF p.index >= p.len
    THEN [p |-> p, ret |-> None]
    ELSE Permutations_some(next_perm(p))

\* next(): [p |-> self afterwards, ret |-> the Option returned]
Permutations_next(p) ==
    IF p.indices = <<>>
    THEN Permutations_some(next_combo(p))
    ELSE Permutations_next_rest([p EXCEPT !.index = @ + 1])

(***************************************************************************)
(* combination.rs: struct Combinations and its methods.                    *)
(***************************************************************************)
\* vec![0; n]
Zeros(n) == [x \in 1..n |-> 0]

\* next.reverse()
Reverse(list) == [x \in 1..Len(list) |-> list[Len(list) + 1 - x]]

RECURSIVE product(_)
\* next.iter().product()
product(list) ==
    IF list = <<>> THEN 1 ELSE list[1] * product(Tail(list))

Combinations_new_shard(elements, permutations, permute_indices, length, permutation) ==
    [permute_indices |-> permute_indices,
     permutations    |-> permutations,
     permutation     |-> permutation,
     elements        |-> elements,
     indices         |-> Zeros(Len(elements)),
     next            |-> <<>>,
     position        |-> 0,
     combinations    |-> 1,
     length          |-> length]

\* permutations.next().unwrap_or(&vec![]).clone()
unwrap_or_empty(ret) == IF ret.some THEN ret.val ELSE <<>>

\* permute once permutations.next() has returned r
Combinations_permute_of(elements, permute_indices, length, r) ==
    Combinations_new_shard(
        elements, r.p, {permute_indices[x] : x \in 1..Len(permute_indices)},
        length, unwrap_or_empty(r.ret))

\* permute(elements, permute_indices, length); permute_indices is the Vec
Combinations_permute(elements, permute_indices, length) ==
    Combinations_permute_of(
        elements, permute_indices, length,
        Permutations_next(
            Permutations_new(permute_indices,
                             Len(permute_indices) - (Len(elements) - length))))

Combinations_new(elements) == Combinations_permute(elements, <<>>, Len(elements))

Combinations_begin(c) == [x \in 1..c.length |-> At(At(c.elements, x - 1), 0)]

\* the for loop of end(): permute is what pop_last has left
RECURSIVE Combinations_end_for(_, _, _, _)
\* mutant: end() pushes the first element of each choice set
Combinations_end_push_first(c, i, j, permute, vec) ==
    Combinations_end_for(c, i + 1, permute, Append(vec, At(At(c.elements, j), 0)))

\* one round of the for loop once j is known
Combinations_end_push(c, i, j, permute, vec) ==
    Combinations_end_for(
        c, i + 1, permute,
        Append(vec, At(At(c.elements, j), Len(At(c.elements, j)) - 1)))

Combinations_end_for(c, i, permute, vec) ==
    IF i >= c.length THEN vec
    ELSE IF i \in c.permute_indices
    THEN Combinations_end_push(c, i, Max(permute),
                               permute \ {Max(permute)}, vec)
    ELSE Combinations_end_push(c, i, i, permute, vec)

Combinations_end(c) == Combinations_end_for(c, 0, c.permute_indices, <<>>)

Combinations_permutations(c) ==
    LET n == Cardinality(c.permute_indices)
        r == Len(c.permutation)
    IN  n_permute_k_loop(n - r + 1, n, 1)

Combinations_len(c) == c.length

\* mutant: a permutable position is never moved by the permutation
next_index_rev_in_place(c, index, permutation_index) ==
    IF index \in c.permute_indices
    THEN <<index, permutation_index - 1>>
    ELSE <<index, permutation_index>>

\* next_index_rev: <<the index returned, permutation_index afterwards>>
next_index_rev(c, index, permutation_index) ==
    IF index \in c.permute_indices
    THEN <<At(c.permutation, permutation_index - 1), permutation_index - 1>>
    ELSE <<index, permutation_index>>

RECURSIVE Combinations_combinations_for(_, _, _, _)
\* one round of the for loop; r is what next_index_rev returned
Combinations_combinations_mul(c, i, r, combinations) ==
    Combinations_combinations_for(
        c, i - 1, r[2], combinations * Len(At(c.elements, r[1])))

Combinations_combinations_for(c, i, permutation_index, combinations) ==
    IF i < 0 THEN combinations
    ELSE Combinations_combinations_mul(
             c, i, next_index_rev(c, i, permutation_index), combinations)

Combinations_combinations(c) ==
    Combinations_combinations_for(c, c.length - 1, Len(c.permutation), 1)

\* whether next_permute calls permutations.next()
next_permute_advances(c) ==
    c.position = c.combinations /\ Permutations_len(c.permutations) > 1

\* the body of `if let Some(permutation)`; c holds the new permutation
next_permute_reset(c) ==
    [c EXCEPT !.combinations = Combinations_combinations(c),
              !.position = 0,
              !.indices = Zeros(Len(c.elements))]

\* next_permute once self.permutations.next() has returned r
next_permute_of(c, r) ==
    IF r.ret.some
    THEN next_permute_reset([c EXCEPT !.permutations = r.p,
                                      !.permutation = r.ret.val])
    ELSE [c EXCEPT !.permutations = r.p]

next_permute(c) ==
    IF next_permute_advances(c)
    THEN next_permute_of(c, Permutations_next(c.permutations))
    ELSE c

\* the for loop of the position == 1 branch: next before next.reverse()
RECURSIVE Combinations_next_first_for(_, _, _, _)
\* one round of that loop; r is what next_index_rev returned
Combinations_next_first_push(c, i, r, next) ==
    Combinations_next_first_for(
        c, i - 1, r[2], Append(next, At(At(c.elements, r[1]), 0)))

Combinations_next_first_for(c, i, permutation_index, next) ==
    IF i < 0 THEN next
    ELSE Combinations_next_first_push(
             c, i, next_index_rev(c, i, permutation_index), next)

\* the for loop of the general branch, with its break
RECURSIVE Combinations_next_for(_, _, _)
\* mutant: the counter of position j never carries into the next position
Combinations_next_at_no_carry(c, i, j, permutation_index) ==
    IF At(c.indices, j) < Len(At(c.elements, j)) - 1
    THEN [c EXCEPT !.indices[j + 1] = @ + 1,
                   !.next[i + 1] = At(At(c.elements, j), At(c.indices, j) + 1)]
    ELSE [c EXCEPT !.indices[j + 1] = 0,
                   !.next[i + 1] = At(At(c.elements, j), 0)]

\* one round of that loop; j and permutation_index are what next_index_rev
\* returned
Combinations_next_at(c, i, j, permutation_index) ==
    IF At(c.indices, j) < Len(At(c.elements, j)) - 1
    THEN [c EXCEPT !.indices[j + 1] = @ + 1,
                   !.next[i + 1] = At(At(c.elements, j), At(c.indices, j) + 1)]
    ELSE Combinations_next_for(
             [c EXCEPT !.indices[j + 1] = 0,
                       !.next[i + 1] = At(At(c.elements, j), 0)],
             i - 1, permutation_index)

Combinations_next_for(c, i, permutation_index) ==
    IF i < 0 THEN c
    ELSE Combinations_next_at(
             c, i, next_index_rev(c, i, permutation_index)[1],
             next_index_rev(c, i, permutation_index)[2])

\* next() up to, and without, its closing self.next_permute()
Combinations_next_positioned(c) ==
    IF c.position = 1
    THEN [c EXCEPT !.combinations = Combinations_combinations(c),
                   !.next = Reverse(Combinations_next_first_for(
                                        c, c.length - 1, Len(c.permutation),
                                        <<>>))]
    ELSE Combinations_next_for(c, c.length - 1, Len(c.permutation))

\* next() from self.position += 1 up to, and without, its closing
\* self.next_permute()
Combinations_next_body(c) ==
    Combinations_next_positioned([c EXCEPT !.position = @ + 1])

\* whether next_permute, entered with c, runs into a failing assert!
next_permute_panics(c) ==
    next_permute_advances(c) /\ Permutations_next_panics(c.permutations)

\* whether this call of next() runs into a failing assert! of Permutations
Combinations_next_panics(c) ==
    /\ c.position < c.combinations
    /\ next_permute_panics(Combinations_next_body(c))

\* return Some(&self.next)
Combinations_some(c) == [c |-> c, ret |-> Some(c.next)]

\* next(): [c |-> self afterwards, ret |-> the Option returned]
Combinations_next(c) ==
    IF c.position >= c.combinations
    THEN [c |-> c, ret |-> None]
    ELSE Combinations_some(next_permute(Combinations_next_body(c)))

\* the while loop of estimate_total.  When a call of next() returns Some
\* and leaves the enumerator exactly as it was, every later iteration
\* repeats this one until count reaches sample_size: the loop is summed
\* up instead of unrolled.  The source scales in f64; the model keeps the
\* integer quotient total_perm * num_permutations / sample_size.
RECURSIVE estimate_total_while(_, _, _, _, _)
\* the loop body; r is what permutations.next() returned, count and
\* total_perm are the values after `count += 1` and the saturating_add
estimate_total_body(permutations, r, count, total_perm, sample_size, num_permutations) ==
    IF count = sample_size
    THEN (total_perm * num_permutations) \div sample_size
    ELSE IF r.p = permutations /\ count < sample_size
    THEN ((total_perm + (sample_size - count) * product(r.ret.val))
              * num_permutations) \div sample_size
    ELSE estimate_total_while(r.p, count, total_perm, sample_size,
                              num_permutations)

\* `while let Some(next) = permutations.next()`, r being what it returned
estimate_total_let(permutations, r, count, total_perm, sample_size, num_permutations) ==
    IF ~r.ret.some THEN total_perm
    ELSE estimate_total_body(permutations, r, count + 1,
                             total_perm + product(r.ret.val), sample_size,
                             num_permutations)

estimate_total_while(permutations, count, total_perm, sample_size, num_permutations) ==
    estimate_total_let(permutations, Permutations_next(permutations), count,
                       total_perm, sample_size, num_permutations)

\* the first for loop of estimate_total: <<total_combo, sizes>>
RECURSIVE estimate_total_for(_, _, _, _)
estimate_total_for(c, i, total_combo, sizes) ==
    IF i >= Len(c.elements) THEN <<total_combo, sizes>>
    ELSE IF i \in c.permute_indices
    THEN estimate_total_for(c, i + 1, total_combo,
                            Append(sizes, Len(At(c.elements, i))))
    ELSE estimate_total_for(c, i + 1, total_combo * Len(At(c.elements, i)),
                            sizes)

\* estimate_total after its first for loop
estimate_total_of(c, sample_size, total_combo, sizes) ==
    IF Len(sizes) = 0 THEN total_combo
    ELSE estimate_total_while(
             Permutations_new(sizes, Len(c.permutation)), 0, 0, sample_size,
             Combinations_permutations(c)) * total_combo

Combinations_estimate_total(c, sample_size) ==
    estimate_total_of(c, sample_size,
                      estimate_total_for(c, 0, 1, <<>>)[1],
                      estimate_total_for(c, 0, 1, <<>>)[2])

\* the sample size total() passes to estimate_total
SAMPLE_SIZE == 10000000

Combinations_total(c) == Combinations_estimate_total(c, SAMPLE_SIZE)

\* the shards shard_index makes of one shard s
shard_index_choices(s, index) ==
    [x \in 1..Len(At(s.elements, index)) |->
        Combinations_new_shard(
            [s.elements EXCEPT ![index + 1] = <<At(s.elements, index)[x]>>],
            s.permutations, s.permute_indices, s.length, s.permutation)]

RECURSIVE shard_index_for(_, _, _, _)
shard_index_for(shards_in, x, index, next_shards) ==
    IF x > Len(shards_in) THEN next_shards
    ELSE shard_index_for(shards_in, x + 1, index,
                         next_shards \o shard_index_choices(shards_in[x], index))

shard_index(shards_in, index) == shard_index_for(shards_in, 1, index, <<>>)

\* a loop that stops at the first position it has split
Combinations_shard_stop(c, i, n, split) == split

\* the second for loop of shard(), with its break
RECURSIVE Combinations_shard_for(_, _, _, _)
\* `if shards.len() >= num { break; }` after shards = shard_index(shards, i)
Combinations_shard_break(c, i, n, split) ==
    IF Len(split) >= n THEN split
    ELSE Combinations_shard_for(c, i + 1, n, split)

Combinations_shard_for(c, i, n, shards_in) ==
    IF i >= Len(c.elements) THEN shards_in
    ELSE IF i \notin c.permute_indices
    THEN Combinations_shard_break(c, i, n, shard_index(shards_in, i))
    ELSE Combinations_shard_for(c, i + 1, n, shards_in)

\* the shard pushed for one shard of the permutations, r being what its
\* first next() returned
Combinations_shard_push(c, r) ==
    Combinations_new_shard(c.elements, r.p, c.permute_indices, c.length,
                           unwrap_or_empty(r.ret))

\* the first for loop of shard(), over the shards perms
Combinations_shard_each(c, perms) ==
    [x \in 1..Len(perms) |->
        Combinations_shard_push(c, Permutations_next(perms[x]))]

\* the first half of shard(): one shard for each shard of the permutations
Combinations_shard_permutations(c, n) ==
    IF Permutations_len(c.permutations) > 1
    THEN Combinations_shard_each(
             c, Permutations_shard(
                    c.permutations,
                    Min2(n, Permutations_len(c.permutations))))
    ELSE <<c>>

Combinations_shard(c, n) ==
    Combinations_shard_for(c, 0, n, Combinations_shard_permutations(c, n))

(***************************************************************************)
(* passphrase.rs: Passphrase, UserCharsets, Mask, Dictionary, Wildcard.    *)
(*                                                                         *)
(* A String is a sequence of characters.  DICT_PATH is one character of    *)
(* the model that stands for the text of a dictionary path "./dict.txt":   *)
(* it holds no '?', no ',' and no "//".  A Result is [ok |-> TRUE, val]    *)
(* or Err.                                                                 *)
(***************************************************************************)
Ok(v) == [ok |-> TRUE, val |-> v]

Err == [ok |-> FALSE, val |-> <<>>]

DICT_PATH == "./dict.txt"

\* the lines of the dictionary file, as io::read_to_string(file).lines()
DictFile == [x \in 1..DictLines |-> <<"w", ToString(x)>>]

\* str.replace(from, to) for a pattern of two equal characters
RECURSIVE replace(_, _, _)
replace(str, from, to) ==
    IF Len(str) < 2 THEN str
    ELSE IF str[1] = from /\ str[2] = from
    THEN to \o replace(SubSeq(str, 3, Len(str)), from, to)
    ELSE <<str[1]>> \o replace(Tail(str), from, to)

\* str.contains(c)
contains(str, c) == \E x \in 1..Len(str) : str[x] = c

\* num.to_string().chars().next().unwrap() for the charset numbers 1..=4
flag_of(slot) == <<"1", "2", "3", "4">>[slot]

\* Wildcard::new_custom(slot, display); display is never empty here
Wildcard_new_custom(slot, display) ==
    [flag |-> flag_of(slot), length |-> Len(display), charset |-> Some(display)]

\* the bit widths whose file charsets/bin/<bin>bit.hcchr exists
BinFiles == 1..8

\* Wildcard::new_binary(slot, bin, total)
Wildcard_new_binary(slot, bin, total) ==
    IF bin \in BinFiles
    THEN Ok([flag |-> flag_of(slot), length |-> total,
             charset |-> Some(<<ToString(bin), "bit.hcchr">>)])
    ELSE Err

\* UserCharsets::new(args): the BTreeMap charsets
UserCharsets_new(args) ==
    [slot \in {i \in 1..Len(args) : args[i].some} |->
        Wildcard_new_custom(slot, args[slot].val)]

UserCharsets_empty == UserCharsets_new(<<>>)

\* 2_u64.pow(n)
RECURSIVE pow2(_)
pow2(n) == IF n = 0 THEN 1 ELSE 2 * pow2(n - 1)

RECURSIVE add_binary_charsets_for(_, _, _, _, _)
\* mutant: the binary charset is inserted even over a user-defined slot
add_binary_charsets_insert_over(i, charsets, bin, totals, wildcards) ==
    IF bin = <<>>
    THEN add_binary_charsets_for(i + 1, charsets, bin, totals, wildcards)
    ELSE IF ~Wildcard_new_binary(i, bin[Len(bin)], totals[Len(totals)]).ok
    THEN Err
    ELSE add_binary_charsets_for(
             i + 1,
             [n \in DOMAIN charsets \cup {i} |->
                 IF n = i
                 THEN Wildcard_new_binary(i, bin[Len(bin)],
                                          totals[Len(totals)]).val
                 ELSE charsets[n]],
             SubSeq(bin, 1, Len(bin) - 1),
             SubSeq(totals, 1, Len(totals) - 1),
             Append(wildcards,
                    Wildcard_new_binary(i, bin[Len(bin)],
                                        totals[Len(totals)]).val))

\* one round of the for loop of add_binary_charsets
add_binary_charsets_insert(i, charsets, bin, totals, wildcards) ==
    IF i \in DOMAIN charsets \/ bin = <<>>
    THEN add_binary_charsets_for(i + 1, charsets, bin, totals, wildcards)
    ELSE IF ~Wildcard_new_binary(i, bin[Len(bin)], totals[Len(totals)]).ok
    THEN Err
    ELSE add_binary_charsets_for(
             i + 1,
             [n \in DOMAIN charsets \cup {i} |->
                 IF n = i
                 THEN Wildcard_new_binary(i, bin[Len(bin)],
                                          totals[Len(totals)]).val
                 ELSE charsets[n]],
             SubSeq(bin, 1, Len(bin) - 1),
             SubSeq(totals, 1, Len(totals) - 1),
             Append(wildcards,
                    Wildcard_new_binary(i, bin[Len(bin)],
                                        totals[Len(totals)]).val))

\* for i in 1..=4: Ok([charsets |-> self.charsets afterwards, wildcards])
add_binary_charsets_for(i, charsets, bin, totals, wildcards) ==
    IF i > 4 THEN Ok([charsets |-> charsets, wildcards |-> wildcards])
    ELSE add_binary_charsets_insert(i, charsets, bin, totals, wildcards)

\* UserCharsets::add_binary_charsets(entropy_bits)
UserCharsets_add_binary_charsets(charsets, entropy_bits) ==
    add_binary_charsets_for(1, charsets, <<entropy_bits, 6, 5>>,
                            <<pow2(entropy_bits), pow2(6), pow2(5)>>, <<>>)

\* UserCharsets::to_wildcards: the values in key order
to_wildcards(charsets) ==
    [x \in 1..Cardinality(DOMAIN charsets) |->
        charsets[SetToSeq(DOMAIN charsets)[x]]]

\* the length of the wildcard of flag c in wildcards(charsets), 0 if none
wildcards_length(charsets, c) ==
    IF \E n \in DOMAIN charsets : charsets[n].flag = c
    THEN charsets[CHOOSE n \in DOMAIN charsets : charsets[n].flag = c].length
    ELSE CASE c = "l" -> 26
           [] c = "u" -> 26
           [] c = "d" -> 10
           [] c = "h" -> 16
           [] c = "H" -> 16
           [] c = "s" -> 33
           [] c = "a" -> 95
           [] c = "b" -> 256
           [] c = "?" -> 1
           [] OTHER -> 0

\* Mask::new(arg, total, ..); the examples are not modelled
Mask_new(arg, total) == [arg |-> arg, total |-> total]

Mask_empty == Mask_new(<<>>, 1)

\* Mask::prefix_wild(wildcard)
Mask_prefix_wild(m, wildcard) ==
    [arg |-> <<"?", wildcard.flag>> \o m.arg,
     total |-> m.total * wildcard.length]

\* the for loop of Passphrase::mask over arg.chars() from the x-th one
RECURSIVE mask_for(_, _, _, _, _)
mask_for(arg, x, charsets, question, combinations) ==
    IF x > Len(arg)
    THEN IF question THEN Err ELSE Ok(Mask_new(arg, combinations))
    ELSE IF question
    THEN IF wildcards_length(charsets, arg[x]) = 0 THEN Err
         ELSE mask_for(arg, x + 1, charsets, FALSE,
                       combinations * wildcards_length(charsets, arg[x]))
    ELSE mask_for(arg, x + 1, charsets, arg[x] = "?", combinations)

\* Passphrase::mask(arg, charsets)
Passphrase_mask(arg, charsets) ==
    mask_for(replace(replace(arg, "/", <<"/">>), ",", <<",">>), 1, charsets,
             FALSE, 1)

\* arg.split(SEPARATOR) from the x-th character on, cur being the part read
RECURSIVE split(_, _, _, _)
split(str, x, sep, cur) ==
    IF x > Len(str) THEN <<cur>>
    ELSE IF str[x] = sep THEN <<cur>> \o split(str, x + 1, sep, <<>>)
    ELSE split(str, x + 1, sep, Append(cur, str[x]))

MAX_DICT == 1000000000

\* Dictionary::new(vecs, arg)
Dictionary_new(vecs) ==
    IF Combinations_total(Combinations_new(vecs)) > MAX_DICT THEN Err
    ELSE Ok([combinations |-> Combinations_new(vecs)])

\* the for loop of Passphrase::dict over the parts of the arg; the one
\* file that File::open finds is DICT_PATH
RECURSIVE dict_for(_, _, _)
dict_for(parts, x, combinations) ==
    IF x > Len(parts) THEN Dictionary_new(combinations)
    ELSE IF parts[x] # <<>> /\ parts[x][1] = DICT_PATH
    THEN IF parts[x] = <<DICT_PATH>>
         THEN dict_for(parts, x + 1, Append(combinations, DictFile))
         ELSE Err
    ELSE IF parts[x] = <<>>
    THEN dict_for(parts, x + 1, Append(combinations, << <<",">> >>))
    ELSE dict_for(parts, x + 1,
                  Append(combinations,
                         << replace(replace(parts[x], "?", <<"?">>), "/",
                                    <<"/">>) >>))

\* Passphrase::dict(arg)
Passphrase_dict(arg) == dict_for(split(arg, 1, ",", <<>>), 1, <<>>)

Dict(d) == [kind |-> "Dict", dict |-> d]

Mask(m) == [kind |-> "Mask", mask |-> m]

\* Ok(PassphraseArg::Mask(..)) or Ok(PassphraseArg::Dict(..)), or the error
validate_arg_wrap(is_mask, parsed) ==
    IF ~parsed.ok THEN Err
    ELSE IF is_mask THEN Ok(Mask(parsed.val)) ELSE Ok(Dict(parsed.val))

\* mutant: any '?' of the argument makes it a mask
Passphrase_validate_arg_any_question(arg, charsets) ==
    IF contains(arg, "?")
    THEN validate_arg_wrap(TRUE, Passphrase_mask(arg, charsets))
    ELSE validate_arg_wrap(FALSE, Passphrase_dict(arg))

\* Passphrase::validate_arg(arg, charsets)
Passphrase_validate_arg(arg, charsets) ==
    IF contains(replace(arg, "?", <<>>), "?")
    THEN validate_arg_wrap(TRUE, Passphrase_mask(arg, charsets))
    ELSE validate_arg_wrap(FALSE, Passphrase_dict(arg))

\* Passphrase::new(attack_mode, args, charsets)
Passphrase_new(attack_mode, args, charsets) ==
    [attack_mode |-> attack_mode,
     left        |-> args[1],
     right       |-> IF Len(args) >= 2 THEN Some(args[2]) ELSE None,
     charsets    |-> charsets]

Passphrase_empty_mask ==
    Passphrase_new(3, <<Mask(Mask_empty)>>, UserCharsets_empty)

\* the kinds of the parsed arguments, for the match of from_arg
kinds(parsed) == [x \in 1..Len(parsed) |-> parsed[x].kind]

\* the match of from_arg over parsed[..]
from_arg_match(parsed, charsets) ==
    CASE kinds(parsed) = <<"Mask">> -> Ok(Passphrase_new(3, parsed, charsets))
      [] kinds(parsed) = <<"Dict">> -> Ok(Passphrase_new(0, parsed, charsets))
      [] kinds(parsed) = <<"Dict", "Dict">> ->
             Ok(Passphrase_new(1, parsed, charsets))
      [] kinds(parsed) = <<"Dict", "Mask">> ->
             Ok(Passphrase_new(6, parsed, charsets))
      [] kinds(parsed) = <<"Mask", "Dict">> ->
             Ok(Passphrase_new(7, parsed, charsets))
      [] OTHER -> Err

\* the for loop of from_arg: parsed, or the first error
RECURSIVE from_arg_for(_, _, _, _)
from_arg_push(args, x, charsets, parsed, next) ==
    IF ~next.ok THEN Err
    ELSE from_arg_for(args, x + 1, charsets, Append(parsed, next.val))

from_arg_for(args, x, charsets, parsed) ==
    IF x > Len(args) THEN Ok(parsed)
    ELSE from_arg_push(args, x, charsets, parsed,
                       Passphrase_validate_arg(args[x], charsets))

\* from_arg once every argument has been validated
from_arg_parsed(parsed, charsets) ==
    IF ~parsed.ok THEN Err ELSE from_arg_match(parsed.val, charsets)

\* Passphrase::from_arg(args, charsets)
Passphrase_from_arg(args, charsets) ==
    from_arg_parsed(from_arg_for(args, 1, UserCharsets_new(charsets), <<>>),
                    UserCharsets_new(charsets))

\* Attempt::total of a PassphraseArg
attempt_total(arg) ==
    IF arg.kind = "Dict" THEN Combinations_total(arg.dict.combinations)
    ELSE arg.mask.total

\* Attempt for Passphrase: total
Passphrase_total(p) ==
    IF p.right.some THEN attempt_total(p.left) * attempt_total(p.right.val)
    ELSE attempt_total(p.left)

\* the for loop `for _ in 1..guesses` of add_binary_charsets
RECURSIVE add_binary_charsets_guesses(_, _, _, _)
add_binary_charsets_guesses(m, x, guesses, wildcards) ==
    IF x >= guesses THEN m
    ELSE add_binary_charsets_guesses(
             Mask_prefix_wild(Mask_prefix_wild(m, wildcards[2]), wildcards[1]),
             x + 1, guesses, wildcards)

\* mutant: every guess, the last one too, is prefixed with the 5-bit and
\* 6-bit wildcards
add_binary_charsets_prefix_triples(copy, guesses, wildcards) ==
    IF copy.left.kind = "Mask"
    THEN Ok(Some([copy EXCEPT !.left.mask =
                     add_binary_charsets_guesses(
                         Mask_prefix_wild(@, wildcards[3]), 0, guesses,
                         wildcards)]))
    ELSE Ok(None)

\* `if let PassphraseArg::Mask(ref mut m) = &mut copy.left`
add_binary_charsets_prefix(copy, guesses, wildcards) ==
    IF copy.left.kind = "Mask"
    THEN Ok(Some([copy EXCEPT !.left.mask =
                     add_binary_charsets_guesses(
                         Mask_prefix_wild(@, wildcards[3]), 1, guesses,
                         wildcards)]))
    ELSE Ok(None)

\* mutant: a lone Dict stays on the left
add_binary_charsets_dict_stays(copy) == copy

\* `if let PassphraseArg::Dict(d) = &self.left`
add_binary_charsets_dict(copy) ==
    IF copy.left.kind = "Dict" /\ ~copy.right.some
    THEN [copy EXCEPT !.right = Some(copy.left),
                      !.left = Mask(Mask_empty),
                      !.attack_mode = 7]
    ELSE copy

\* add_binary_charsets once copy.charsets.add_binary_charsets has returned
add_binary_charsets_of(p, guesses, added) ==
    IF ~added.ok THEN Err
    ELSE IF Len(added.val.wildcards) # 3 THEN Ok(None)
    ELSE add_binary_charsets_prefix(
             add_binary_charsets_dict(
                 [p EXCEPT !.charsets = added.val.charsets]),
             guesses, added.val.wildcards)

\* Passphrase::add_binary_charsets(guesses, entropy_bits): Ok(Some(copy)),
\* Ok(None) or the error
Passphrase_add_binary_charsets(p, guesses, entropy_bits) ==
    add_binary_charsets_of(
        p, guesses, UserCharsets_add_binary_charsets(p.charsets, entropy_bits))

(***************************************************************************)
(* address.rs: the derivation paths of an address.  A string is the        *)
(* sequence of its characters.                                             *)
(***************************************************************************)
MAX_DERIVATIONS == 10

DIGITS == <<"0", "1", "2", "3", "4", "5", "6", "7", "8", "9">>

\* format!("{}", n) of an unsigned number
RECURSIVE to_string(_)
to_string(n) ==
    IF n < 10 THEN <<DIGITS[n + 1]>>
    ELSE to_string(n \div 10) \o <<DIGITS[(n % 10) + 1]>>

\* the value of the decimal digits str[1..x]
RECURSIVE digits_value(_, _)
digits_value(str, x) ==
    IF x = 0 THEN 0
    ELSE 10 * digits_value(str, x - 1)
             + (CHOOSE d \in 0..9 : DIGITS[d + 1] = str[x])

\* str.parse::<u32>()
parse_u32(str) ==
    IF str = <<>> \/ \E x \in 1..Len(str) : \A d \in 1..10 : DIGITS[d] # str[x]
    THEN Err
    ELSE Ok(digits_value(str, Len(str)))

\* derivation.strip_prefix("m/")
strip_prefix_m(str) ==
    IF Len(str) >= 2 /\ str[1] = "m" /\ str[2] = "/"
    THEN Some(SubSeq(str, 3, Len(str)))
    ELSE None

\* the nodes of a parsed element: the number, or 0..=num for a '?'
derivation_nodes_of(question, parsed, suffix) ==
    IF ~parsed.ok THEN Err
    ELSE IF ~question THEN Ok(<<to_string(parsed.val) \o suffix>>)
    ELSE Ok([i \in 1..(parsed.val + 1) |-> to_string(i - 1) \o suffix])

\* the element without its suffix, then without its '?'
derivation_nodes_node(path, has_suffix, question) ==
    SubSeq(path, IF question THEN 2 ELSE 1,
           IF has_suffix THEN Len(path) - 1 ELSE Len(path))

derivation_nodes_parse(path, has_suffix, question) ==
    derivation_nodes_of(
        question,
        parse_u32(derivation_nodes_node(path, has_suffix, question)),
        IF has_suffix THEN <<path[Len(path)]>> ELSE <<>>)

derivation_nodes(path) ==
    derivation_nodes_parse(
        path,
        path # <<>> /\ path[Len(path)] \in {"h", "'"},
        path # <<>> /\ path[1] = "?")

\* every node appended to every current path, the nodes in the outer loop
extend_paths(current, nodes, delim) ==
    IF current = <<>> THEN <<>>
    ELSE [k \in 1..(Len(nodes) * Len(current)) |->
             current[((k - 1) % Len(current)) + 1] \o <<delim>>
                 \o nodes[((k - 1) \div Len(current)) + 1]]

RECURSIVE derivation_paths_for(_, _, _, _, _)
\* the element is never materialised in the arguments
derivation_paths_extend_raw(paths, x, num_args, derivations, list, nodes) ==
    derivation_paths_for(paths, x + 1, num_args, derivations,
                         extend_paths(list, <<paths[x]>>, "/"))

\* the two extend_paths of an element whose nodes are known
derivation_paths_extend(paths, x, num_args, derivations, list, nodes) ==
    derivation_paths_for(
        paths, x + 1, num_args, derivations,
        IF num_args + Len(derivations) > MAX_DERIVATIONS
        THEN extend_paths(list, nodes, "/")
        ELSE extend_paths(list, <<paths[x]>>, "/"))

derivation_paths_nodes(paths, x, num_args, derivations, list, nodes) ==
    IF ~nodes.ok THEN Err
    ELSE derivation_paths_extend(
             paths, x, num_args, extend_paths(derivations, nodes.val, "/"),
             list, nodes.val)

\* for path in derivation.split("/"), from the x-th element on
derivation_paths_for(paths, x, num_args, derivations, list) ==
    IF x > Len(paths) THEN Ok([derivations |-> derivations, args |-> list])
    ELSE derivation_paths_nodes(paths, x, num_args, derivations, list,
                                derivation_nodes(paths[x]))

derivation_paths(derivation, num_args) ==
    derivation_paths_for(split(derivation, 1, "/", <<>>), 1, num_args,
                         << <<"m">> >>, << <<"m">> >>)

RECURSIVE derivation_for(_, _, _, _)
\* the arguments are joined whatever the number of derivations
derivation_extend_join(parts, x, derivations, list, arg) ==
    derivation_for(
        parts, x + 1, derivations,
        IF Len(list) > 0 THEN extend_paths(list, arg, ",") ELSE list \o arg)

\* derivations.extend(derivation), then the arguments joined or extended
derivation_extend(parts, x, derivations, list, arg) ==
    derivation_for(
        parts, x + 1, derivations,
        IF Len(derivations) <= MAX_DERIVATIONS /\ Len(list) > 0
        THEN extend_paths(list, arg, ",")
        ELSE list \o arg)

derivation_paths_result(parts, x, derivations, list, paths) ==
    IF ~paths.ok THEN Err
    ELSE derivation_extend(parts, x, derivations \o paths.val.derivations,
                           list, paths.val.args)

derivation_stripped(parts, x, derivations, list, stripped) ==
    IF ~stripped.some THEN Err
    ELSE derivation_paths_result(
             parts, x, derivations, list,
             derivation_paths(stripped.val, Len(derivations)))

\* for derivation in split, from the x-th path on
derivation_for(parts, x, derivations, list) ==
    IF x > Len(parts) THEN Ok([derivations |-> derivations, args |-> list])
    ELSE derivation_stripped(parts, x, derivations, list,
                             strip_prefix_m(parts[x]))

\* the paths of the argument: split at ',', else at '|', else at ' '
derivation_split(kind, arg) ==
    IF ~arg.some THEN kind
    ELSE IF contains(arg.val, ",") THEN split(arg.val, 1, ",", <<>>)
    ELSE IF contains(arg.val, "|") THEN split(arg.val, 1, "|", <<>>)
    ELSE split(arg.val, 1, " ", <<>>)

\* AddressValid::derivation; kind stands for kind.derivations
AddressValid_derivation(kind, arg) ==
    derivation_for(derivation_split(kind, arg), 1, <<>>, <<>>)

RECURSIVE gcd(_, _)
gcd(a, b) == IF b = 0 THEN a ELSE gcd(b, a % b)

\* the quotient of two counts as f64, written as the fraction in lowest terms
f64_div(a, b) == [num |-> a \div gcd(a, b), den |-> b \div gcd(a, b)]

Derivations_hash_ratio(d) == f64_div(Len(d.derivations), Len(d.args))

\* kind.derivations of address_kinds()
address_kinds ==
    { << <<"m", "/", "0">> >>,
      << <<"m", "/", "0", "/", "0">>,
         <<"m", "/", "4", "4", "'", "/", "0", "'", "/", "0", "'", "/", "0",
           "/", "0">> >>,
      << <<"m", "/", "0", "/", "0">>,
         <<"m", "/", "4", "9", "'", "/", "0", "'", "/", "0", "'", "/", "0",
           "/", "0">> >>,
      << <<"m", "/", "8", "4", "'", "/", "0", "'", "/", "0", "'", "/", "0",
           "/", "0">> >> }

(***************************************************************************)
(* seed.rs: Seed and SeedEncoder.  A u32 is the sequence of its 32 bits,   *)
(* the most significant one first; SHA-256 is stood for by a mixing        *)
(* function of the bytes hashed, of which only the first output byte is    *)
(* read.  The seeds of the model have a number of words that is a multiple *)
(* of 3 and at most 24, as all seeds of seed.rs have.                      *)
(***************************************************************************)
DEFAULT_MAX_HASHES == 10000000

DEFAULT_MIN_PASSPHRASES == 10000

NUM_WORDS == 2048

BIP39_BYTE_OFFSET == 48

EXACT_VALID_MAX == 100000

VALID_LENGTHS == {12, 15, 18, 21, 24}

\* n as u32, for n < 2^31
u32(n) == [k \in 1..32 |-> IF k = 1 THEN 0 ELSE (n \div 2^(32 - k)) % 2]

\* 0xFFFFFFFF
U32_MAX == [k \in 1..32 |-> 1]

shl(a, n) == [k \in 1..32 |-> IF k + n <= 32 THEN a[k + n] ELSE 0]

shr(a, n) == [k \in 1..32 |-> IF k - n >= 1 THEN a[k - n] ELSE 0]

bitor(a, b) == [k \in 1..32 |-> IF a[k] = 1 \/ b[k] = 1 THEN 1 ELSE 0]

bitand(a, b) == [k \in 1..32 |-> IF a[k] = 1 /\ b[k] = 1 THEN 1 ELSE 0]

\* the value of the bits a[from..to]
RECURSIVE bits_value(_, _, _)
bits_value(a, from, to) ==
    IF to < from THEN 0 ELSE 2 * bits_value(a, from, to - 1) + a[to]

\* ent.to_be_bytes()
to_be_bytes(a) == [b \in 1..4 |-> bits_value(a, 8 * b - 7, 8 * b)]

\* hasher.update(bytes) on the state h of the stand-in, from the x-th byte
RECURSIVE Sha256_update(_, _, _)
Sha256_update(h, bytes, x) ==
    IF x > Len(bytes) THEN h
    ELSE Sha256_update(((h + bytes[x]) * 167 + 13) % 256, bytes, x + 1)

\* hasher.update of every entropy word from the x-th on, then
\* finalize_fixed_reset().as_slice()[0]
RECURSIVE Sha256_first_byte(_, _, _)
Sha256_first_byte(h, entropy, x) ==
    IF x > Len(entropy) THEN h
    ELSE Sha256_first_byte(Sha256_update(h, to_be_bytes(entropy[x]), 1),
                           entropy, x + 1)

\* fixed_positions() of a Combinations
Combinations_fixed_positions(c) ==
    [x \in 1..Combinations_len(c) |->
        IF (x - 1) \notin c.permute_indices /\ Len(At(c.elements, x - 1)) = 1
        THEN Some(At(At(c.elements, x - 1), 0))
        ELSE None]

Combinations_elements(c) == c.elements

SeedEncoder_of(guessed, is_pure_gpu, total_bits) ==
    [guessed |-> guessed,
     entropy_bits |->
         IF (total_bits % 32) > 11 THEN 0 ELSE 11 - (total_bits % 32),
     checksum_bits |-> total_bits % 32,
     is_pure_gpu |-> is_pure_gpu,
     total_entropy |-> total_bits - (total_bits % 32)]

SeedEncoder_new(words, is_pure_gpu) ==
    SeedEncoder_of(
        SetToSeq({i \in 0..(Combinations_len(words) - 1) :
                     ~Combinations_fixed_positions(words)[i + 1].some}),
        is_pure_gpu, Combinations_len(words) * 11)

\* entropy[index] |= value
or_at(entropy, index, value) ==
    [entropy EXCEPT ![index + 1] = bitor(@, value)]

RECURSIVE valid_checksum_for(_, _, _, _, _, _)
\* one round of the for loop, offset being the value after `offset -= 11`
valid_checksum_word(encoder, wordlist, i, offset, index, entropy) ==
    IF offset < 0
    THEN valid_checksum_for(
             encoder, wordlist, i + 1, offset + 32, index + 1,
             or_at(or_at(entropy, index, shr(u32(wordlist[i + 1]), -offset)),
                   index + 1, shl(u32(wordlist[i + 1]), offset + 32)))
    ELSE valid_checksum_for(
             encoder, wordlist, i + 1, offset, index,
             or_at(entropy, index, shl(u32(wordlist[i + 1]), offset)))

\* the for loop from i on, then last_entropy: the entropy words hashed
valid_checksum_for(encoder, wordlist, i, offset, index, entropy) ==
    IF i < Len(wordlist) - 1
    THEN valid_checksum_word(encoder, wordlist, i, offset - 11, index,
                             entropy)
    ELSE or_at(entropy, index,
               shr(bitand(u32(wordlist[Len(wordlist)]),
                          shl(U32_MAX, encoder.checksum_bits)),
                   -(offset - 11)))

\* the checksum compared with the last bits of the last word
valid_checksum_ne(encoder, last_word, hash0) ==
    bitand(u32(last_word), shr(U32_MAX, 32 - encoder.checksum_bits))
        # shr(u32(hash0), 8 - encoder.checksum_bits)

\* last_word & checksum_mask == checksum, hash0 being hash.as_slice()[0]
valid_checksum_eq(encoder, last_word, hash0) ==
    bitand(u32(last_word), shr(U32_MAX, 32 - encoder.checksum_bits))
        = shr(u32(hash0), 8 - encoder.checksum_bits)

SeedEncoder_valid_checksum(encoder, wordlist) ==
    valid_checksum_eq(
        encoder, wordlist[Len(wordlist)],
        Sha256_first_byte(
            0,
            valid_checksum_for(
                encoder, wordlist, 0, 32, 0,
                [x \in 1..(encoder.total_entropy \div 32) |-> u32(0)]),
            1))

\* char + BIP39_BYTE_OFFSET + bits on u8, wrapping as a release build does
\* (a debug build panics where the sum exceeds 255)
char_offset(char, bits) == (char + BIP39_BYTE_OFFSET + bits) % 256

\* the two bytes pushed the other way round
encode_word_low_first(encoded, w) ==
    encoded \o <<char_offset(w % 64, 6), char_offset(w \div 64, 5)>>

\* encode_word pushes two bytes: num >> 6 and num & 0x3F
encode_word(encoded, w) ==
    encoded \o <<char_offset(w \div 64, 5), char_offset(w % 64, 6)>>

\* strs.join(sep)
RECURSIVE join(_, _)
join(strs, sep) ==
    IF strs = <<>> THEN <<>>
    ELSE IF Len(strs) = 1 THEN strs[1]
    ELSE strs[1] \o <<sep>> \o join(Tail(strs), sep)

\* is_pure_gpu: the indices, a guessed one flagged with '='
encode_words_pure(encoder, wordlist) ==
    join([x \in 1..Len(wordlist) |->
             IF \E g \in 1..Len(encoder.guessed) : encoder.guessed[g] = x - 1
             THEN <<"=">> \o to_string(wordlist[x])
             ELSE to_string(wordlist[x])], ",")

\* for i in &self.guessed, from the g-th guessed position on
RECURSIVE encode_words_for(_, _, _, _)
encode_words_for(encoder, wordlist, g, encoded) ==
    IF g > Len(encoder.guessed) THEN encoded
    ELSE encode_words_for(
             encoder, wordlist, g + 1,
             IF encoder.guessed[g] < Len(wordlist) - 1
             THEN encode_word(encoded, wordlist[encoder.guessed[g] + 1])
             ELSE encoded)

\* the byte of the last word, when it is guessed
encode_words_last(encoder, wordlist, encoded) ==
    IF encoder.guessed[Len(encoder.guessed)] = Len(wordlist) - 1
    THEN Append(encoded,
                char_offset((wordlist[Len(wordlist)]
                                 \div 2^(11 - encoder.entropy_bits)) % 256,
                            encoder.entropy_bits))
    ELSE encoded

SeedEncoder_encode_words(encoder, wordlist) ==
    IF encoder.is_pure_gpu THEN encode_words_pure(encoder, wordlist)
    ELSE IF encoder.guessed = <<>> THEN <<>>
    ELSE encode_words_last(encoder, wordlist,
                           encode_words_for(encoder, wordlist, 1, <<>>))

\* the column of a position in the arguments: "?" or the index
from_words_arg(fixed) ==
    IF fixed.some THEN <<to_string(fixed.val)>> ELSE << <<"?">> >>

Seed_from_words(words) ==
    [words |-> words,
     encoder |-> SeedEncoder_new(words, FALSE),
     args |-> Combinations_new(
                  [x \in 1..Combinations_len(words) |->
                      from_words_arg(Combinations_fixed_positions(words)[x])])]

Seed_from_vecs(words) == Seed_from_words(Combinations_new(words))

Seed_with_pure_gpu(s, is_pure_gpu) ==
    [s EXCEPT !.encoder.is_pure_gpu = is_pure_gpu]

\* validate_combinations; anchored is the set of the anchored positions.
\* `combo - anchored.len()` overflows with more anchored words than combo
validate_combinations_overflows(combo, anchored) ==
    Cardinality(anchored) > combo

\* `num >= 21`: an overflowed num wraps to 2^64 - (anchored.len() - combo)
validate_combinations_infeasible(combo, anchored) ==
    IF validate_combinations_overflows(combo, anchored) THEN TRUE
    ELSE combo - Cardinality(anchored) >= 21

\* the bail! taken, when one is
validate_combinations_bails(words, combo, anchored) ==
    \/ combo \notin VALID_LENGTHS
    \/ Len(words) < combo
    \/ validate_combinations_infeasible(combo, anchored)
    \/ \E i \in anchored : i < Len(words) /\ i >= combo

\* indices: the positions that are not anchored, in order
validate_combinations_indices(words, anchored) ==
    SetToSeq((0..(Len(words) - 1)) \ anchored)

\* as a build without overflow checks runs it (from_args_match has both)
Seed_validate_combinations(words, combo, anchored) ==
    IF validate_combinations_bails(words, combo, anchored) THEN Err
    ELSE Ok(Combinations_permute(
                words, validate_combinations_indices(words, anchored), combo))

\* Ok(Self::from_words(words)), or the error of validate_combinations
from_args_words(words) ==
    IF words.ok THEN Ok(Seed_from_words(words.val)) ELSE Err

\* from_args once the words of the argument are looked up: words holds the
\* indices matching each word, anchored the positions written with '^'
Seed_from_args(words, anchored, combo_arg) ==
    from_args_words(
        IF combo_arg.some
        THEN Seed_validate_combinations(words, combo_arg.val, anchored)
        ELSE Ok(Combinations_new(words)))

Seed_total(s) == Combinations_total(s.words)

Seed_total_args(s) == Combinations_total(s.args)

\* the column of an element of the words in the binary-charset arguments
binary_charsets_mapped(element) ==
    IF Len(element) = NUM_WORDS THEN << <<"?">> >>
    ELSE IF Len(element) > 1
    THEN [x \in 1..Len(element) |-> <<"=">> \o to_string(element[x])]
    ELSE <<to_string(element[1])>>

\* guesses: the elements that hold every word
binary_charsets_guesses(elements) ==
    Cardinality({x \in 1..Len(elements) : Len(elements[x]) = NUM_WORDS})

\* what add_binary_charsets returned decides
binary_charsets_added(seed, added) ==
    IF ~added.ok THEN Err
    ELSE IF added.val.some
    THEN Ok(Some([seed |-> seed, passphrase |-> added.val.val]))
    ELSE Ok(None)

\* passphrase.clone().unwrap_or(Passphrase::empty_mask())
unwrap_or_empty_mask(passphrase) ==
    IF passphrase.some THEN passphrase.val ELSE Passphrase_empty_mask

\* the element the for loop ends on is not a '?'
binary_charsets_last_fixed(elements) ==
    elements = <<>> \/ Len(elements[Len(elements)]) # NUM_WORDS

\* binary_charsets after the for loop, seed holding the new args
binary_charsets_of(self, seed, elements, max_args, passphrase) ==
    IF binary_charsets_last_fixed(elements) THEN Ok(None)
    ELSE IF Seed_total_args(seed) > max_args THEN Ok(None)
    ELSE binary_charsets_added(
             seed,
             Passphrase_add_binary_charsets(
                 unwrap_or_empty_mask(passphrase),
                 binary_charsets_guesses(elements),
                 self.encoder.entropy_bits))

Seed_binary_charsets(self, max_args, passphrase) ==
    IF Combinations_permutations(self.words) > 1 THEN Ok(None)
    ELSE binary_charsets_of(
             self,
             [self EXCEPT !.args =
                 Combinations_new(
                     [x \in 1..Len(Combinations_elements(self.words)) |->
                         binary_charsets_mapped(
                             Combinations_elements(self.words)[x])])],
             Combinations_elements(self.words), max_args, passphrase)

\* the tuple that words.next() returned is valid, or the loop goes on
next_valid_checked(self, r, valid) ==
    IF valid
    THEN [c |-> r.c, done |-> TRUE,
          ret |-> Some(SeedEncoder_encode_words(self.encoder, r.ret.val))]
    ELSE [c |-> r.c, done |-> FALSE, ret |-> None]

\* one round of the while loop of next_valid, r being what
\* self.words.next() returned
next_valid_of(self, r) ==
    IF ~r.ret.some THEN [c |-> r.c, done |-> TRUE, ret |-> None]
    ELSE next_valid_checked(
             self, r, SeedEncoder_valid_checksum(self.encoder, r.ret.val))

\* up to n rounds of the loop on [c, done, ret], by halves
RECURSIVE next_valid_rounds(_, _, _)
next_valid_rounds(self, st, n) ==
    IF st.done \/ n = 0 THEN st
    ELSE IF n = 1 THEN next_valid_of(self, Combinations_next(st.c))
    ELSE next_valid_rounds(self, next_valid_rounds(self, st, n \div 2),
                           n - (n \div 2))

\* while let Some(next) = self.words.next() { .. }, 16 rounds at a time
RECURSIVE next_valid_while(_, _)
next_valid_while(self, st) ==
    IF st.done THEN [s |-> [self EXCEPT !.words = st.c], ret |-> st.ret]
    ELSE next_valid_while(self, next_valid_rounds(self, st, 16))

\* the words of BIP39_WORDS that the model spells out, at their indices;
\* every other word is stood for by a string that holds no letter
KnownWords ==
    [i \in {0, 1, 2, 144, 208, 839, 877, 955, 972, 1268, 1392, 1429, 1778,
            1825, 1898, 2046, 2047} |->
        CASE i = 0 -> <<"a", "b", "a", "n", "d", "o", "n">>
          [] i = 1 -> <<"a", "b", "i", "l", "i", "t", "y">>
          [] i = 2 -> <<"a", "b", "l", "e">>
          [] i = 144 -> <<"b", "a", "m", "b", "o", "o">>
          [] i = 208 -> <<"b", "o", "r", "r", "o", "w">>
          [] i = 839 -> <<"h", "a", "p", "p", "y">>
          [] i = 877 -> <<"h", "o", "r", "r", "o", "r">>
          [] i = 955 -> <<"j", "a", "z", "z">>
          [] i = 972 -> <<"k", "a", "n", "g", "a", "r", "o", "o">>
          [] i = 1268 -> <<"o", "z", "o", "n", "e">>
          [] i = 1392 -> <<"p", "u", "p", "p", "y">>
          [] i = 1429 -> <<"r", "a", "z", "o", "r">>
          [] i = 1778 -> <<"t", "a", "t", "t", "o", "o">>
          [] i = 1825 -> <<"t", "o", "m", "o", "r", "r", "o", "w">>
          [] i = 1898 -> <<"u", "n", "h", "a", "p", "p", "y">>
          [] i = 2046 -> <<"z", "o", "n", "e">>
          [] OTHER -> <<"z", "o", "o">>]

\* BIP39_WORDS[index]
BIP39_WORDS(index) ==
    IF index \in DOMAIN KnownWords THEN KnownWords[index]
    ELSE <<"#">> \o to_string(index)

Finished_new(seed, passphrase, pure_gpu) ==
    [seed |-> Some(seed), passphrase |-> Some(passphrase),
     pure_gpu |-> pure_gpu]

\* an exhausted result that keeps a passphrase
Finished_exhausted_passphrase(pure_gpu) ==
    [seed |-> None, passphrase |-> Some(<<>>), pure_gpu |-> pure_gpu]

Finished_exhausted(pure_gpu) ==
    [seed |-> None, passphrase |-> None, pure_gpu |-> pure_gpu]

\* for element in &self.words.fixed_positions(), from the x-th on: the
\* words pushed and what is left of split, or the error of `?`
RECURSIVE found_for(_, _, _, _)
found_for(fixed, x, fields, seed) ==
    IF x > Len(fixed) THEN Ok([seed |-> seed, split |-> fields])
    ELSE IF fixed[x].some
    THEN found_for(fixed, x + 1, fields,
                   Append(seed, BIP39_WORDS(fixed[x].val)))
    ELSE IF fields = <<>> THEN Err
    ELSE found_for(fixed, x + 1, Tail(fields), Append(seed, Head(fields)))

\* the last field of what is left
found_passphrase_last(fields) ==
    IF fields = <<>> THEN <<>> ELSE fields[Len(fields)]

\* split.next().unwrap_or("")
found_passphrase(fields) == IF fields = <<>> THEN <<>> ELSE Head(fields)

\* found once the for loop has returned r
found_some(self, r) ==
    IF ~r.ok THEN Err
    ELSE Ok(Finished_new(join(r.val.seed, ","),
                         found_passphrase(r.val.split),
                         self.encoder.is_pure_gpu))

Seed_found(self, found) ==
    IF found.some
    THEN found_some(self,
                    found_for(Combinations_fixed_positions(self.words), 1,
                              split(found.val, 1, ",", <<>>), <<>>))
    ELSE Ok(Finished_exhausted(self.encoder.is_pure_gpu))

\* next_encoded() once self.words.next() has returned r
next_encoded_of(self, r) ==
    [s |-> [self EXCEPT !.words = r.c],
     ret |-> IF r.ret.some
             THEN Some(SeedEncoder_encode_words(self.encoder, r.ret.val))
             ELSE None]

Seed_next_encoded(self) == next_encoded_of(self, Combinations_next(self.words))

\* next_valid(): [s |-> self afterwards, ret |-> the Option returned]
Seed_next_valid(self) ==
    next_valid_while(self, [c |-> self.words, done |-> FALSE, ret |-> None])

\* one round of the while loop of exact_valid_seeds on [seed, num, done]
exact_valid_seeds_round(st, r) ==
    IF r.ret.some THEN [seed |-> r.s, num |-> st.num + 1, done |-> FALSE]
    ELSE [seed |-> r.s, num |-> st.num, done |-> TRUE]

\* up to n rounds of the loop, by halves
RECURSIVE exact_valid_seeds_rounds(_, _)
exact_valid_seeds_rounds(st, n) ==
    IF st.done \/ n = 0 THEN st
    ELSE IF n = 1 THEN exact_valid_seeds_round(st, Seed_next_valid(st.seed))
    ELSE exact_valid_seeds_rounds(exact_valid_seeds_rounds(st, n \div 2),
                                  n - (n \div 2))

\* while let Some(_) = seed.next_valid() { num += 1 }, 16 rounds at a time
RECURSIVE exact_valid_seeds_while(_)
exact_valid_seeds_while(st) ==
    IF st.done THEN st.num
    ELSE exact_valid_seeds_while(exact_valid_seeds_rounds(st, 16))

Seed_exact_valid_seeds(self) ==
    exact_valid_seeds_while([seed |-> self, num |-> 0, done |-> FALSE])

valid_seeds_of(self, total) ==
    IF total < EXACT_VALID_MAX THEN Seed_exact_valid_seeds(self)
    ELSE total \div 2^(Combinations_len(self.words) \div 3)

Seed_valid_seeds(self) == valid_seeds_of(self, Seed_total(self))

(***************************************************************************)
(* hashcat.rs: the mode that Hashcat::get_mode plans.                      *)
(***************************************************************************)
HashcatMode_new(runner, passphrases, hashes) ==
    [runner |-> runner, passphrases |-> passphrases, hashes |-> hashes]

\* the variants of HashcatRunner
PureGpu == [kind |-> "PureGpu"]

BinaryCharsets(seed, passphrase) ==
    [kind |-> "BinaryCharsets", seed |-> seed, passphrase |-> passphrase]

StdinMaxHashes == [kind |-> "StdinMaxHashes"]

StdinMinPassphrases == [kind |-> "StdinMinPassphrases"]

\* AddressValid::new; the address and its kind are not modelled
AddressValid_new(derivations) == [derivations |-> derivations]

\* derivations.args()
Derivations_args(d) == d.args

\* Hashcat::new; exe, prefix, hashcat_args and total are not modelled
Hashcat_new(address, seed, passphrase) ==
    [address |-> address,
     seed |-> seed,
     passphrase |-> passphrase,
     max_hashes |-> DEFAULT_MAX_HASHES,
     min_passphrases |-> DEFAULT_MIN_PASSPHRASES]

\* get_mode from `let gpu_hashes` on
get_mode_hashes(self, passphrases, gpu_hashes, stdin_hashes) ==
    IF gpu_hashes > self.max_hashes
    THEN HashcatMode_new(StdinMaxHashes, 0, stdin_hashes)
    ELSE IF passphrases < self.min_passphrases
    THEN HashcatMode_new(StdinMinPassphrases, 0, stdin_hashes)
    ELSE HashcatMode_new(PureGpu, passphrases, gpu_hashes)

\* get_mode from `let derivations` on
get_mode_stdin(self, derivations) ==
    get_mode_hashes(
        self,
        IF self.passphrase.some THEN Passphrase_total(self.passphrase.val)
        ELSE 0,
        Seed_valid_seeds(self.seed) * derivations,
        Seed_total_args(self.seed) * derivations)

\* mutant: the binary charsets are used whatever the passphrases are
get_mode_binary_always(self, total_derivations, bc) ==
    IF bc.some
    THEN HashcatMode_new(BinaryCharsets(bc.val.seed, bc.val.passphrase),
                         Passphrase_total(bc.val.passphrase),
                         Seed_total_args(bc.val.seed) * total_derivations)
    ELSE get_mode_stdin(self, total_derivations)

\* `if let Some((seed, passphrase)) = binary_charsets?`
get_mode_binary(self, total_derivations, bc) ==
    IF bc.some /\ Passphrase_total(bc.val.passphrase) > self.min_passphrases
    THEN HashcatMode_new(BinaryCharsets(bc.val.seed, bc.val.passphrase),
                         Passphrase_total(bc.val.passphrase),
                         Seed_total_args(bc.val.seed) * total_derivations)
    ELSE get_mode_stdin(self, total_derivations)

\* get_mode once binary_charsets has returned
get_mode_of(self, total_derivations, binary_charsets) ==
    IF ~binary_charsets.ok THEN Err
    ELSE Ok(get_mode_binary(self, total_derivations, binary_charsets.val))

Hashcat_get_mode(self) ==
    get_mode_of(
        self, Len(Derivations_args(self.address.derivations)),
        Seed_binary_charsets(self.seed, self.max_hashes, self.passphrase))

(***************************************************************************)
(* hashcat.rs: Hashcat::run.  A line of the output of hashcat is the       *)
(* sequence of its characters.                                             *)
(***************************************************************************)
\* str.starts_with(pat)
starts_with(str, pat) ==
    Len(pat) <= Len(str) /\ SubSeq(str, 1, Len(pat)) = pat

\* the places of str where pat begins
find(str, pat) ==
    {i \in 1..(Len(str) - Len(pat) + 1) :
        SubSeq(str, i, i + Len(pat) - 1) = pat}

\* str.contains_str(pat)
contains_str(str, pat) == find(str, pat) # {}

\* the least of a set of places
first_of(places) == CHOOSE i \in places : \A j \in places : i <= j

\* the first place of str where pat begins
first_match(str, pat) == first_of(find(str, pat))

\* str.split(pat) for a pattern of one or more characters
RECURSIVE split_str(_, _)
split_str(str, pat) ==
    IF ~contains_str(str, pat) THEN <<str>>
    ELSE <<SubSeq(str, 1, first_match(str, pat) - 1)>>
             \o split_str(SubSeq(str, first_match(str, pat) + Len(pat),
                                 Len(str)), pat)

\* iter.nth(n)
nth(iter, n) == IF n < Len(iter) THEN Some(iter[n + 1]) ELSE None

\* str.parse::<u64>()
parse_u64(str) == parse_u32(str)

TIME_STARTED ==
    <<"T", "i", "m", "e", ".", "S", "t", "a", "r", "t", "e", "d", ".", ".",
      ".", ".", ".", ":", " ">>

PROGRESS ==
    <<"P", "r", "o", "g", "r", "e", "s", "s", ".", ".", ".", ".", ".", ".",
      ".", ".", ".", ":", " ">>

DEVICE ==
    <<"*", " ", "D", "e", "v", "i", "c", "e">>

WARNING ==
    <<"W", "A", "R", "N", "I", "N", "G">>

SKIPPED ==
    <<"s", "k", "i", "p", "p", "e", "d">>

\* what the reading of a line leaves: the loop goes on, run_stdout returns
\* ret, or an unwrap or expect of the loop panics
Continue(timer) == [kind |-> "continue", timer |-> timer, ret |-> None]

Return(timer, ret) == [kind |-> "return", timer |-> timer, ret |-> ret]

Panics(timer) == [kind |-> "panic", timer |-> timer, ret |-> None]

\* Timer: the count stored, whether a handle was started, whether it ended
Timer_new == [counter |-> 0, handle |-> None, end |-> FALSE]

\* num.parse::<u64>().expect("is num") of the Time.Started line, then
\* handle = Some(timer.start_at(num).await)
run_stdout_started(timer, text) ==
    IF ~parse_u64(text).ok THEN Panics(timer)
    ELSE Continue([timer EXCEPT !.handle = Some(parse_u64(text).val)])

\* line.split(" (").nth(1).unwrap(), then num.split(" sec").nth(0).unwrap()
run_stdout_time(timer, text) ==
    IF ~text.some THEN Panics(timer)
    ELSE run_stdout_started(
             timer, nth(split_str(text.val, <<" ", "s", "e", "c">>), 0).val)

\* num.parse::<u64>().expect("is num") of the Progress line, then
\* timer.store(total)
run_stdout_store(timer, text) ==
    IF ~parse_u64(text).ok THEN Panics(timer)
    ELSE Continue([timer EXCEPT !.counter = parse_u64(text).val])

\* line.split(": ").nth(1).unwrap(), then num.split("/").nth(0).unwrap()
run_stdout_progress(timer, text) ==
    IF ~text.some THEN Panics(timer)
    ELSE run_stdout_store(timer, nth(split_str(text.val, <<"/">>), 0).val)

\* the if-else chain on a line of the output
run_stdout_line(timer, line, address) ==
    IF /\ contains_str(line, DEVICE)
       /\ ~contains_str(line, WARNING)
       /\ ~contains_str(line, SKIPPED)
    THEN Continue(timer)
    ELSE IF starts_with(line, TIME_STARTED) /\ ~timer.handle.some
    THEN run_stdout_time(timer, nth(split_str(line, <<" ", "(">>), 1))
    ELSE IF starts_with(line, PROGRESS)
    THEN run_stdout_progress(timer, nth(split_str(line, <<":", " ">>), 1))
    ELSE IF contains_str(line, address \o <<":">>)
    THEN Return([timer EXCEPT !.end = TRUE], nth(split_str(line, <<":">>), 1))
    ELSE Continue(timer)

HashcatMode_is_pure_gpu(mode) ==
    mode.runner.kind \notin {"StdinMaxHashes", "StdinMinPassphrases"}

\* the directories of HashcatExe: exe.parent() and exe.parent().parent()
HASHCAT_DIR == "hashcat"

SEEDCAT_DIR == "seedcat"

\* self.exe.cd_hashcat()
cd_hashcat(run) == [run EXCEPT !.cwd = HASHCAT_DIR]

\* self.exe.cd_seedcat()
cd_seedcat(run) == [run EXCEPT !.cwd = SEEDCAT_DIR]

\* a run of hashcat on the address before run() is called, the current
\* directory being the one that validate_exe() found hashcat in
Run_new(hashcat, address) ==
    [pc |-> "new", cwd |-> SEEDCAT_DIR, hashcat |-> hashcat,
     address |-> address, mode |-> None, hashfile |-> "absent",
     child |-> FALSE, stdin |-> FALSE, timer |-> Timer_new, seen |-> <<>>,
     eof |-> FALSE, result |-> None, ret |-> <<>>]

\* run() returns ret
run_return(run, ret) == [run EXCEPT !.pc = "returned", !.ret = ret]

\* an unwrap or expect of run() panics
run_panic(run) == [run EXCEPT !.pc = "panicked"]

\* the arm of `match mode.clone().runner` up to write_hashes: the seed and
\* the passphrase of the run; built is whether build_args returned Ok
run_match(run, mode, built) ==
    IF mode.runner.kind = "BinaryCharsets"
    THEN IF ~built THEN run_return(run, Err)
         ELSE [run EXCEPT
                  !.pc = "planned", !.mode = Some(mode),
                  !.hashcat.passphrase = Some(mode.runner.passphrase),
                  !.hashcat.seed = Seed_with_pure_gpu(mode.runner.seed, TRUE)]
    ELSE [run EXCEPT
             !.pc = "planned", !.mode = Some(mode),
             !.hashcat.seed = Seed_with_pure_gpu(
                                  @, HashcatMode_is_pure_gpu(mode))]

\* run() from get_mode()? on
run_mode(run, mode, built) ==
    IF ~mode.ok THEN run_return(run, Err)
    ELSE run_match(run, mode.val, built)

\* run() up to write_hashes: cd_hashcat, build_args, get_mode and the
\* match; built and built_binary are whether the build_args return Ok
run_plan(run, built, built_binary) ==
    IF run.hashcat.passphrase.some /\ ~built
    THEN run_return(cd_hashcat(run), Err)
    ELSE run_mode(cd_hashcat(run), Hashcat_get_mode(run.hashcat),
                  built_binary)

\* write_hashes up to the loop: File::create(path).unwrap()
write_hashes_create(run, created) ==
    IF created THEN [run EXCEPT !.pc = "writing", !.hashfile = "open"]
    ELSE run_panic(run)

\* write_hashes leaving the hash file unfinished
write_hashes_unfinished(run, written) ==
    IF written THEN [run EXCEPT !.pc = "written"] ELSE run_return(run, Err)

\* write_hashes from the loop on: every line written and parz.finish(),
\* or the error of a write
write_hashes_finish(run, written) ==
    IF written THEN [run EXCEPT !.pc = "written", !.hashfile = "finished"]
    ELSE run_return(run, Err)

\* spawn_hashcat, and in the stdin modes spawn(Self::stdin_sender(..))
spawn_hashcat(run, started) ==
    IF ~started THEN run_panic(run)
    ELSE [run EXCEPT !.pc = "spawned", !.child = TRUE,
                     !.stdin = ~HashcatMode_is_pure_gpu(run.mode.val)]

\* run_helper up to the loop of run_stdout: self.file(HC_ERROR_FILE)? and
\* self.file(HC_OUTPUT_FILE)?
run_helper_files(run, created) ==
    IF created THEN [run EXCEPT !.pc = "reading"] ELSE run_return(run, Err)

\* the body of `for read in reader.lines()` on a line read; written is
\* whether writeln!(file, ..) and file.flush() return Ok
run_stdout_read(run, line, r, written) ==
    IF r.kind = "panic" THEN run_panic([run EXCEPT !.seen = Append(@, line)])
    ELSE IF r.kind = "return"
    THEN [run EXCEPT !.pc = "read", !.seen = Append(@, line),
                     !.timer = r.timer, !.result = r.ret]
    ELSE IF ~written
    THEN run_return([run EXCEPT !.seen = Append(@, line),
                                !.timer = r.timer], Err)
    ELSE [run EXCEPT !.seen = Append(@, line), !.timer = r.timer]

\* run_stdout once reader.lines() has ended: timer.end() and Ok(None)
run_stdout_eof(run) ==
    [run EXCEPT !.pc = "read", !.eof = TRUE, !.timer.end = TRUE,
                !.result = None]

\* run_helper once run_stdout has returned: self.seed.found(result)?,
\* cd_seedcat() and Ok((timer, found))
run_helper_found(run, found) ==
    IF ~found.ok THEN run_return(run, Err)
    ELSE run_return(cd_seedcat(run), Ok(found.val))

(***************************************************************************)
(* hashcat.rs: Hashcat::stdin_sender, the task that feeds the stdin of     *)
(* hashcat, with spawn_passphrases and HashcatStdin.  A feed holds the     *)
(* task (pc, seed, pass_buffer), the seeds that its channel rx has yet to  *)
(* deliver, the hashcat --stdout that generates the passphrases (lines,    *)
(* what it has yet to send), the channel pass_rx, and the HashcatStdin.    *)
(***************************************************************************)
CHANNEL_SIZE == MaxChannel

STDIN_PASSPHRASE_MEM == MaxMem

STDIN_BUFFER_BYTES == MaxBytes

\* HashcatStdin::new; written is what hashcat has read of its stdin, and
\* passed is the history of the calls of stdin_send, the pass of each
HashcatStdin_new(passphrase_args) ==
    [stdin_buffer |-> <<>>, passphrase_args |-> passphrase_args,
     written |-> <<>>, open |-> TRUE, passed |-> <<>>]

\* self.stdin.write_all(&self.stdin_buffer), its error let go
write_all(stdin) ==
    IF stdin.open
    THEN [stdin EXCEPT !.written = stdin.written \o stdin.stdin_buffer]
    ELSE stdin

\* stdin_send that does not clear the buffer it has written
stdin_send_kept(stdin) ==
    IF Len(stdin.stdin_buffer) > STDIN_BUFFER_BYTES
    THEN write_all(stdin)
    ELSE stdin

\* stdin_send once the password and its terminator are in the buffer
stdin_send_buffered(stdin) ==
    IF Len(stdin.stdin_buffer) > STDIN_BUFFER_BYTES
    THEN [write_all(stdin) EXCEPT !.stdin_buffer = <<>>]
    ELSE stdin

\* stdin_send(pass): password is its argument
stdin_send(stdin, password) ==
    stdin_send_buffered(
        [stdin EXCEPT !.stdin_buffer = stdin.stdin_buffer \o password
                                           \o <<"\n">>,
                      !.passed = Append(stdin.passed, password)])

HashcatStdin_flush(stdin) == write_all(stdin)

\* `for pass in &pass_buffer` from the x-th on
RECURSIVE stdin_sender_for(_, _, _, _)
stdin_sender_for(stdin, seed, pass_buffer, x) ==
    IF x > Len(pass_buffer) THEN stdin
    ELSE stdin_sender_for(stdin_send(stdin, seed \o pass_buffer[x]), seed,
                          pass_buffer, x + 1)

\* spawn_passphrases to its first await: with a buffer that holds every
\* passphrase no hashcat is spawned, and the channel is closed and empty;
\* otherwise one is spawned, which sends the lines after the buffer_len-th
spawn_passphrases(f) ==
    IF Len(f.pass_buffer) > 0 /\ Len(f.pass_buffer) < STDIN_PASSPHRASE_MEM
    THEN [f EXCEPT !.pc = "buffer", !.to_send = <<>>, !.pass_rx = <<>>]
    ELSE [f EXCEPT !.pc = IF Len(f.pass_buffer) = 0 THEN "init" ELSE "buffer",
                   !.to_send = SubSeq(f.lines, Len(f.pass_buffer) + 1,
                                      Len(f.lines)),
                   !.pass_rx = <<>>]

\* tx.send(..) of the spawned task, when the channel has room
passphrases_send(f) ==
    [f EXCEPT !.to_send = Tail(f.to_send),
              !.pass_rx = Append(f.pass_rx, Head(f.to_send))]

\* the recv() of the channel can return: a line is there, or it is closed
can_recv(f) == f.pass_rx # <<>> \/ f.to_send = <<>>

\* one turn of `while let Some(rx) = rx.recv().await` of "initialize
\* buffer": the line is pushed, or the loop is left with the line received
spawn_passphrases_init(f) ==
    IF f.pass_rx = <<>> THEN [f EXCEPT !.pc = "buffer"]
    ELSE IF Len(f.pass_buffer) = STDIN_PASSPHRASE_MEM
    THEN [f EXCEPT !.pc = "buffer", !.pass_rx = Tail(f.pass_rx)]
    ELSE [f EXCEPT !.pass_buffer = Append(f.pass_buffer, Head(f.pass_rx)),
                   !.pass_rx = Tail(f.pass_rx)]

\* one rx.recv() of stdin_sender: the seed is sent or its passphrases are
\* asked for, or the channel is closed and stdin flushed
stdin_sender_recv(f) ==
    IF f.rx = <<>>
    THEN [f EXCEPT !.pc = "done", !.stdin = HashcatStdin_flush(f.stdin)]
    ELSE IF ~f.stdin.passphrase_args
    THEN [f EXCEPT !.rx = Tail(f.rx),
                   !.received = Append(f.received, Head(f.rx)),
                   !.stdin = stdin_send(f.stdin, Head(f.rx))]
    ELSE spawn_passphrases([f EXCEPT !.rx = Tail(f.rx), !.seed = Head(f.rx),
                               !.received = Append(f.received, Head(f.rx))])

\* `for pass in &pass_buffer`
stdin_sender_buffer(f) ==
    [f EXCEPT !.pc = "stream",
              !.stdin = stdin_sender_for(f.stdin, f.seed, f.pass_buffer, 1)]

\* one turn of `while let Some(pass) = pass_rx.recv().await`
stdin_sender_stream(f) ==
    IF f.pass_rx = <<>> THEN [f EXCEPT !.pc = "recv"]
    ELSE [f EXCEPT !.pass_rx = Tail(f.pass_rx),
                   !.stdin = stdin_send(f.stdin, f.seed \o Head(f.pass_rx))]

\* a stdin_sender spawned on the seeds rx, lines being what hashcat --stdout
\* prints for passphrase_args
Feed_new(rx, passphrase_args, lines) ==
    [pc |-> "recv", rx |-> rx, received |-> <<>>, seed |-> <<>>,
     lines |-> lines, pass_buffer |-> <<>>, to_send |-> <<>>,
     pass_rx |-> <<>>, stdin |-> HashcatStdin_new(passphrase_args)]

(***************************************************************************)
(* hashcat.rs: the tasks that send candidates, seed_sender (one for each   *)
(* shard of the seed, on clones of one Sender) and the task of             *)
(* spawn_arg_sender.  A sender holds what seed.next_valid() or             *)
(* seed.next_arg() have yet to return to it, and how it ended.             *)
(***************************************************************************)
SEED_TASKS == MaxSenders

\* a task spawned on what its seed has yet to return
Sender_new(kind, seed) == [kind |-> kind, seed |-> seed, state |-> "running"]

\* the channel(CHANNEL_SIZE) and the tasks spawned on its Sender
Prod_new(senders) ==
    [senders |-> senders, channel |-> <<>>, receiver |-> TRUE,
     received |-> <<>>]

\* sender.send(next).await returns: there is room, or the receiver is gone
can_send(p) == ~p.receiver \/ Len(p.channel) < CHANNEL_SIZE

\* the value sent is in the channel, and the loop goes on
sent(p, i) ==
    [p EXCEPT !.senders[i].seed = Tail(p.senders[i].seed),
              !.channel = Append(p.channel, Head(p.senders[i].seed))]

\* the task i has ended in state
ended(p, i, state) == [p EXCEPT !.senders[i].state = state]

\* mutant: a seed_sender that loses the seed it was to send
seed_sender_lossy(p, i) ==
    IF p.senders[i].seed = <<>> THEN ended(p, i, "finished")
    ELSE [p EXCEPT !.senders[i].seed = Tail(@)]

\* one turn of `while let Some(next) = seed.next_valid()` of seed_sender:
\* `if sender.send(next).await.is_err() { break; }`
seed_sender(p, i) ==
    IF p.senders[i].seed = <<>> THEN ended(p, i, "finished")
    ELSE IF ~p.receiver THEN ended(p, i, "finished")
    ELSE sent(p, i)

\* one turn of `while let Some(arg) = seed.next_arg()` of spawn_arg_sender:
\* `tx.send(arg.into_bytes()).await.expect("Arg receiver stoppped")`
arg_sender(p, i) ==
    IF p.senders[i].seed = <<>> THEN ended(p, i, "finished")
    ELSE IF ~p.receiver THEN ended(p, i, "panicked")
    ELSE sent(p, i)

\* receiver.recv().await returns Some(..)
channel_recv(p) ==
    [p EXCEPT !.channel = Tail(p.channel),
              !.received = Append(p.received, Head(p.channel))]

\* the Receiver is dropped, and with it what the channel holds
channel_drop(p) == [p EXCEPT !.receiver = FALSE, !.channel = <<>>]

(***************************************************************************)
(* seed.rs: Seed::from_args on the argument as it is typed.  The Seed that *)
(* it returns is Seed_from_words(Combinations_permute(..)) of the elements *)
(* parsed; the result keeps the arguments of that call, twenty permuted    *)
(* positions having 20! arrangements.                                      *)
(***************************************************************************)
SEPARATOR == <<",">>

\* str.ends_with(pat)
ends_with(str, pat) ==
    /\ Len(pat) <= Len(str)
    /\ SubSeq(str, Len(str) - Len(pat) + 1, Len(str)) = pat

\* str.replace(c, "")
replace_with_empty(str, c) == SelectSeq(str, LAMBDA x : x # c)

\* BIP39_WORDS.iter().position(|&w| w == word); a word that is not spelt
\* out is named by a '#' and its index
BIP39_position(word) ==
    IF \E i \in DOMAIN KnownWords : KnownWords[i] = word
    THEN Some(CHOOSE i \in DOMAIN KnownWords : KnownWords[i] = word)
    ELSE IF word # <<>> /\ word[1] = "#"
              /\ \E i \in 0..(NUM_WORDS - 1) : BIP39_WORDS(i) = word
    THEN Some(CHOOSE i \in 0..(NUM_WORDS - 1) : BIP39_WORDS(i) = word)
    ELSE None

\* one turn of `for i in 0..NUM_WORDS`: whether i is pushed onto matching,
\* bip39_word being BIP39_WORDS[i]
from_args_pushes(word, w, bip39_word) ==
    IF /\ starts_with(word, <<"?">>)
       /\ ends_with(word, <<"?">>)
       /\ contains_str(bip39_word, w)
    THEN TRUE
    ELSE IF starts_with(word, <<"?">>) /\ ends_with(bip39_word, w)
    THEN TRUE
    ELSE IF ends_with(word, <<"?">>) /\ starts_with(bip39_word, w)
    THEN TRUE
    ELSE bip39_word = w

\* the turns lo..hi of `for i in 0..NUM_WORDS`, by halves
RECURSIVE from_args_for_i(_, _, _, _)
from_args_for_i(word, w, lo, hi) ==
    IF lo > hi THEN <<>>
    ELSE IF lo = hi
    THEN IF from_args_pushes(word, w, BIP39_WORDS(lo)) THEN <<lo>> ELSE <<>>
    ELSE from_args_for_i(word, w, lo, (lo + hi) \div 2)
             \o from_args_for_i(word, w, ((lo + hi) \div 2) + 1, hi)

\* matching, for one alternative of a word
from_args_matching(word) ==
    from_args_for_i(word, replace_with_empty(word, "?"), 0, NUM_WORDS - 1)

RECURSIVE from_args_for_word(_, _, _)
\* all.extend(matching), or the bail! of an alternative that matches nothing
from_args_extend(tokens, x, all, matching) ==
    IF matching = <<>> THEN Err
    ELSE from_args_for_word(tokens, x + 1, all \o matching)

\* `for word in word.split("|")` from its x-th alternative on
from_args_for_word(tokens, x, all) ==
    IF x > Len(tokens) THEN Ok(all)
    ELSE from_args_extend(tokens, x, all, from_args_matching(tokens[x]))

\* what is pushed onto words for a word, its '^' removed
from_args_element(word) ==
    IF contains(word, "?") \/ contains(word, "|")
    THEN from_args_for_word(split_str(word, <<"|">>), 1, <<>>)
    ELSE IF BIP39_position(word).some
    THEN Ok(<<BIP39_position(word).val>>)
    ELSE Err

RECURSIVE from_args_for(_, _, _, _)
\* anchored.push(index) and words.push(..), or the bail! of the word
from_args_push(tokens, x, anchored, words, element) ==
    IF ~element.ok THEN Err
    ELSE from_args_for(tokens, x + 1,
                       IF starts_with(tokens[x], <<"^">>)
                       THEN anchored \cup {x - 1} ELSE anchored,
                       Append(words, element.val))

\* `for (index, word) in split.enumerate()` from the x-th word on
from_args_for(tokens, x, anchored, words) ==
    IF x > Len(tokens) THEN Ok([anchored |-> anchored, words |-> words])
    ELSE from_args_push(tokens, x, anchored, words,
                        from_args_element(replace_with_empty(tokens[x], "^")))

\* split, at SEPARATOR when arg holds one and at " " otherwise
from_args_split(arg) ==
    IF contains_str(arg, SEPARATOR) THEN split_str(arg, SEPARATOR)
    ELSE split_str(arg, <<" ">>)

\* from_args returned ret
Returned(ret) == [panics |-> FALSE, ret |-> ret]

\* from_args panicked
Panicked == [panics |-> TRUE, ret |-> Err]

\* the Combinations of the Seed returned, as the call that builds it
Permuted(elements, permute_indices, length) ==
    [elements |-> elements, permute_indices |-> permute_indices,
     length |-> length]

\* `match combo_arg` and Ok(Self::from_words(words)); overflow_checks tells
\* whether the build panics on an arithmetic overflow or wraps
from_args_match(words, anchored, combo_arg, overflow_checks) ==
    IF ~combo_arg.some
    THEN Returned(Ok(Permuted(words, <<>>, Len(words))))
    ELSE IF /\ overflow_checks
            /\ validate_combinations_overflows(combo_arg.val, anchored)
    THEN Panicked
    ELSE IF validate_combinations_bails(words, combo_arg.val, anchored)
    THEN Returned(Err)
    ELSE Returned(Ok(Permuted(
                         words,
                         validate_combinations_indices(words, anchored),
                         combo_arg.val)))

\* from_args once the words are parsed, parsed being Err at a bail!
from_args_parsed(parsed, combo_arg, overflow_checks) ==
    IF ~parsed.ok THEN Returned(Err)
    ELSE from_args_match(parsed.val.words, parsed.val.anchored, combo_arg,
                         overflow_checks)

(***************************************************************************)
(* logger.rs: a Timer and the task that start_at spawns.  The AtomicU64s   *)
(* of a Timer keep their width: U64_BITS bits here, 64 in the source.      *)
(***************************************************************************)
\* u64::MAX
U64_MAX == pow2(U64_BITS) - 1

\* u64::wrapping_mul in the place of saturating_mul
wrapping_mul(a, b) == (a * b) % (U64_MAX + 1)

\* u64::saturating_mul
saturating_mul(a, b) == IF a * b > U64_MAX THEN U64_MAX ELSE a * b

\* AtomicU64::fetch_add, which wraps around on overflow
fetch_add(a, b) == (a + b) % (U64_MAX + 1)

\* the Timer that Logger::time_verbose builds; `added` and `adds` are the
\* sum and the number of the amounts given to add(), pc is where the task
\* of start_at is: not spawned, in its loop, ended, or panicked
Logger_time_verbose(total, multiplier) ==
    [total |-> total, end |-> 0, counter |-> 0, multiplier |-> multiplier,
     old_count |-> U64_MAX, pc |-> "new", added |-> 0, adds |-> 0]

\* the Timer that Logger::time builds
Logger_time(total) == Logger_time_verbose(total, 1)

\* Timer::count
Timer_count(self) == saturating_mul(fetch_add(self.counter, 0), self.multiplier)

\* Timer::add
Timer_add(self, amt) ==
    [self EXCEPT !.counter = fetch_add(@, amt), !.added = @ + amt,
                 !.adds = @ + 1]

\* Timer::end
Timer_end(self) == [self EXCEPT !.end = 1]

\* Timer::start_at: the task is spawned with old_count = u64::MAX
Timer_start_at(self) == [self EXCEPT !.pc = "loop", !.old_count = U64_MAX]

\* Timer::gpu_speed divides by the multiplier: a division by zero panics
gpu_speed_panics(self) == self.multiplier = 0

\* `if count >= total || end != 0 { break; }` once the progress is printed
start_at_break(self, count, end) ==
    IF count >= self.total \/ end # 0
    THEN [self EXCEPT !.pc = "done", !.old_count = count]
    ELSE [self EXCEPT !.old_count = count]

\* a turn of the loop of the task, from the end of its sleep to the next:
\* it prints nothing and goes on when the count has not changed and end()
\* was not called.  seconds() is at least 1: its divisions never panic.
start_at_loop(self) ==
    IF Timer_count(self) = self.old_count /\ self.end = 0 THEN self
    ELSE IF gpu_speed_panics(self) THEN [self EXCEPT !.pc = "panic"]
    ELSE start_at_break(self, Timer_count(self), self.end)

(***************************************************************************)
(* permutations.rs: Permutations::shard turn by turn of its while loop.    *)
(***************************************************************************)
\* shard(num) up to its loop: shard_size = self.len / num, no shard yet
shard_enter(self, n) ==
    [self |-> self, num |-> n, shard_size |-> self.len \div n,
     shards |-> <<>>, index |-> 0, pc |-> "while"]

\* the body of the loop: a shard from index to min(len, index + shard_size)
shard_push(run) ==
    [run EXCEPT
        !.shards = Append(@, Permutations_new_shard(
                                 run.self.elements, run.self.k, run.index,
                                 Min2(run.self.len,
                                      run.index + run.shard_size))),
        !.index = @ + run.shard_size]

\* `while index < self.len { .. }` and the return of the shards
shard_while(run) ==
    IF run.index < run.self.len THEN shard_push(run)
    ELSE [run EXCEPT !.pc = "return"]

(***************************************************************************)
(* hashcat.rs: the tasks of a run together.  A pipe holds the channel of   *)
(* spawn_seed_senders with its tasks (seeds), the channel of               *)
(* spawn_arg_sender with its task (args), <<>> for the one that the mode   *)
(* does not make, the records that write_hashes has written, the seeds     *)
(* that the stdin_sender has taken, and where run() is.                    *)
(***************************************************************************)
\* what each task of a channel is spawned on, <<>> without a channel
spawned_on(c) ==
    IF c = <<>> THEN <<>>
    ELSE [i \in 1..Len(c.senders) |-> c.senders[i].seed]

\* run() once the senders of its arm are spawned and write_hashes is called;
\* shards and lines keep what the tasks were spawned on
Pipe_new(runner, seeds, args, derivations) ==
    [runner |-> runner, seeds |-> seeds, args |-> args,
     shards |-> spawned_on(seeds), lines |-> spawned_on(args),
     derivations |-> derivations, records |-> <<>>, fed |-> <<>>,
     pc |-> "writing", result |-> None]

\* mutant: write_hashes given seed_rx in every mode that spawns seed senders
write_hashes_receiver_seeds(p) ==
    IF p.runner = "BinaryCharsets" THEN "args" ELSE "seeds"

\* the channel that write_hashes is given: seed_rx in a PureGpu run, the rx
\* of spawn_arg_sender in the other runs
write_hashes_receiver(p) == IF p.runner = "PureGpu" THEN "seeds" ELSE "args"

\* every Sender of the channel is dropped: its tasks have ended
closed(c) == \A i \in 1..Len(c.senders) : c.senders[i].state # "running"

\* recv() returns Some: a value waits in the channel
recv_some(c) == c.receiver /\ c.channel # <<>>

\* recv() returns None: the channel is empty and closed
recv_none(c) == c.receiver /\ c.channel = <<>> /\ closed(c)

\* a Receiver goes out of scope, if the mode has made it
dropped(c) == IF c = <<>> THEN c ELSE channel_drop(c)

\* run() returns ret or panics: the Receivers it still holds are dropped
pipe_return(p, pc, ret) ==
    [p EXCEPT !.pc = pc, !.result = ret,
              !.seeds = dropped(@), !.args = dropped(@)]

\* the records of a seed: one for each derivation argument, up to the
\* first write that fails
hash_records(seed, count) == [d \in 1..count |-> <<d, seed>>]

\* a turn of `while let Some(seed) = receiver.recv().await` of
\* write_hashes on the channel rx: `written` of the records of the seed
\* are written, and a write_all that fails returns its error at the `?`
write_hashes_while(p, rx, written) ==
    IF written < p.derivations
    THEN pipe_return(
             [p EXCEPT ![rx] = channel_recv(@),
                       !.records = @ \o hash_records(Head(p[rx].channel),
                                                     written)],
             "returned", Err)
    ELSE [p EXCEPT ![rx] = channel_recv(@),
                   !.records = @ \o hash_records(Head(p[rx].channel),
                                                 p.derivations)]

\* write_hashes at the None of recv(): parz.finish(), timer.end() and the
\* await of the timer, which ends at its next turn; the Receiver is dropped
write_hashes_return(p, rx, finished) ==
    IF finished THEN [p EXCEPT !.pc = "written", ![rx] = dropped(@)]
    ELSE pipe_return(p, "returned", Err)

\* spawn_hashcat, its unwrap, and in the stdin modes the spawn of the
\* stdin_sender that takes seed_rx
pipe_spawn(p, started) ==
    IF ~started THEN pipe_return(p, "panicked", None)
    ELSE IF p.runner = "Stdin" THEN [p EXCEPT !.pc = "feeding"]
    ELSE [p EXCEPT !.pc = "spawned"]

\* a turn of `while let Some(seed) = rx.recv().await` of stdin_sender
stdin_sender_while(p) ==
    [p EXCEPT !.seeds = channel_recv(@),
              !.fed = Append(@, Head(p.seeds.channel))]

\* stdin_sender at the None of recv(): stdin.flush() and the end of the task
stdin_sender_return(p) == [p EXCEPT !.pc = "fed", !.seeds = dropped(@)]

(***************************************************************************)
(* hashcat.rs, main.rs: the total of Hashcat::new and the end of           *)
(* configure, from its seed.valid_seeds() on.  A configure holds what the  *)
(* totals of the seed, of the derivations and of the passphrase return,    *)
(* the valid seeds, the total of the Hashcat once built, and what          *)
(* configure returns at a bail!.                                           *)
(***************************************************************************)
\* Hashcat::new: the field total, passphrase being the Option of its total
Hashcat_new_total(seed_total, derivations_total, passphrase) ==
    IF passphrase.some
    THEN saturating_mul(saturating_mul(seed_total, derivations_total),
                        passphrase.val)
    ELSE saturating_mul(seed_total, derivations_total)

\* configure before `if seed.valid_seeds() == 0`
Configure_new(seed_total, valid_seeds, derivations_total, passphrase) ==
    [pc |-> "valid_seeds", seed_total |-> seed_total,
     valid_seeds |-> valid_seeds, derivations_total |-> derivations_total,
     passphrase |-> passphrase, total |-> None, ret |-> <<>>]

\* if seed.valid_seeds() == 0 { bail!(..) }
configure_valid_seeds(c) ==
    IF c.valid_seeds = 0 THEN [c EXCEPT !.pc = "returned", !.ret = Err]
    ELSE [c EXCEPT !.pc = "new"]

\* let hashcat = Hashcat::new(exe, address.clone(), seed, passphrase, args)
configure_new(c) ==
    [c EXCEPT !.pc = "total",
              !.total = Some(Hashcat_new_total(c.seed_total,
                                               c.derivations_total,
                                               c.passphrase))]

\* if hashcat.total() == u64::MAX { bail!(..) }, and on to get_mode
configure_total(c) ==
    IF c.total.val = U64_MAX THEN [c EXCEPT !.pc = "returned", !.ret = Err]
    ELSE [c EXCEPT !.pc = "get_mode"]

(***************************************************************************)
(* Driving a Permutations as tests::test_valid_shards and                  *)
(* tests::assert_explode do: iterate it, shard it, iterate the shards in   *)
(* order.                                                                  *)
(***************************************************************************)
\* ascending vectors of distinct elements: the permute_indices that
\* Seed::validate_combinations builds, and the vectors of the tests
ElementVecs == {SetToSeq(S) : S \in SUBSET (0..(MaxN - 1))}

\* no Combinations has been constructed
CombIdle ==
    /\ comb = <<>>
    /\ comb_iter = <<>>
    /\ comb_out = <<>>
    /\ comb_used = <<>>
    /\ comb_none = 0
    /\ report = <<>>
    /\ comb_num = 0
    /\ comb_shards = <<>>
    /\ comb_shard_out = <<>>

\* no Permutations is being driven
PermIdle ==
    /\ perm = <<>>
    /\ perm_out = <<>>
    /\ perm_none = 0
    /\ num = 0
    /\ shards = <<>>
    /\ shard_cur = 0
    /\ shard_out = <<>>
    /\ shard_calls = 0

\* no Passphrase is being parsed
PassIdle ==
    /\ pass_args = <<>>
    /\ pass_charsets = <<>>
    /\ pass = <<>>
    /\ pass_bin = <<>>
    /\ charsets_bin = <<>>

\* no derivation is being parsed
DerivIdle ==
    /\ deriv_kind = <<>>
    /\ deriv_arg = <<>>
    /\ deriv = <<>>
    /\ ratio = <<>>

\* no seed is being driven
SeedIdle ==
    /\ seed_words = <<>>
    /\ seed_anchored = {}
    /\ seed_combo = <<>>
    /\ seed_new = <<>>
    /\ seed_iter = <<>>
    /\ seed_out = <<>>
    /\ seed_none = 0
    /\ seed_valid = <<>>
    /\ seed_bin = <<>>
    /\ hc_mode = <<>>

\* nothing of the dispatch planning is being driven
PlanIdle == PassIdle /\ DerivIdle /\ SeedIdle

\* no encoder is being driven
EncIdle ==
    /\ enc_words = <<>>
    /\ enc_out = <<>>

\* no match is being reported
FoundIdle ==
    /\ found_arg = <<>>
    /\ found_out = <<>>

\* no argument is being parsed
ArgsIdle ==
    /\ args_arg = <<>>
    /\ args_combo = <<>>
    /\ args_ret = <<>>

\* no task is sending
TaskIdle ==
    /\ feed = <<>>
    /\ prod = <<>>

\* no timer runs, nothing is being sharded, no run has spawned its tasks,
\* no Hashcat is being built
SysIdle ==
    /\ timer_task = <<>>
    /\ shard_run = <<>>
    /\ pipe = <<>>
    /\ hc_new = <<>>

RunIdle ==
    EncIdle /\ FoundIdle /\ hc_run = <<>> /\ ArgsIdle /\ TaskIdle /\ SysIdle

InitPerm ==
    /\ \E elements \in ElementVecs : \E k \in 0..Len(elements) :
           perm = Permutations_new(elements, k)
    /\ perm_out = <<>>
    /\ perm_none = 0
    /\ num = 0
    /\ shards = <<>>
    /\ shard_cur = 0
    /\ shard_out = <<>>
    /\ shard_calls = 0
    /\ CombIdle
    /\ PlanIdle
    /\ RunIdle
    /\ panic = FALSE

\* the driver stops calling next() on an enumerator after len + MaxNone
\* calls (an enumerator that keeps returning Some would never let go)
CallBudget(len) == len + MaxNone

\* the driver has finished with the unsharded enumerator
PermDone ==
    perm_none >= MaxNone \/ Len(perm_out) + perm_none >= CallBudget(perm.len)

\* the loop body of assert_explode once next() has returned r
PermNextReturns(r) ==
    /\ perm' = r.p
    /\ perm_out' = IF r.ret.some THEN Append(perm_out, r.ret.val) ELSE perm_out
    /\ perm_none' = IF r.ret.some THEN perm_none ELSE perm_none + 1
    /\ UNCHANGED <<num, shards, shard_cur, shard_out, shard_calls, combVars,
                   planVars, runVars, panic>>

\* one permutation.next() of assert_explode on the unsharded enumerator
PermNext ==
    /\ ~panic
    /\ num = 0
    /\ ~PermDone
    /\ IF Permutations_next_panics(perm)
       THEN /\ panic' = TRUE
            /\ UNCHANGED <<permVars, combVars, planVars, runVars>>
       ELSE PermNextReturns(Permutations_next(perm))

\* permutations.shard(n); shard(&self) reads elements, k and len only, none
\* of which next() changes, so the driver may shard after iterating
PermShard ==
    /\ ~panic
    /\ num = 0
    /\ PermDone
    /\ \E n \in 1..Min2(MaxNum, perm.len) :
           /\ num' = n
           /\ shards' = Permutations_shard(perm, n)
    /\ UNCHANGED <<perm, perm_out, perm_none, shard_cur, shard_out,
                   shard_calls, combVars, planVars, runVars, panic>>

\* the loop body of assert_explode once the current shard's next() has
\* returned r
ShardNextReturns(r) ==
    /\ shards' = [shards EXCEPT ![shard_cur + 1] = r.p]
    /\ shard_out' = IF r.ret.some THEN Append(shard_out, r.ret.val)
                    ELSE shard_out
    /\ shard_cur' = IF r.ret.some THEN shard_cur ELSE shard_cur + 1
    /\ shard_calls' = IF r.ret.some THEN shard_calls + 1 ELSE 0
    /\ UNCHANGED <<perm, perm_out, perm_none, num, combVars, planVars,
                   runVars, panic>>

\* one permutation.next() of assert_explode on the current shard; None moves
\* the for loop on to the next shard
ShardNext ==
    /\ ~panic
    /\ num > 0
    /\ shard_cur < Len(shards)
    /\ shard_calls < CallBudget(At(shards, shard_cur).len)
    /\ IF Permutations_next_panics(At(shards, shard_cur))
       THEN /\ panic' = TRUE
            /\ UNCHANGED <<permVars, combVars, planVars, runVars>>
       ELSE ShardNextReturns(Permutations_next(At(shards, shard_cur)))

NextPerm == PermNext \/ PermShard \/ ShardNext

SpecPerm == InitPerm /\ [][NextPerm]_vars

(***************************************************************************)
(* Driving a Combinations as the tests of combination.rs do                *)
(* (permute_assert, can_get_begin_and_end, can_shard with expand): ask     *)
(* total(), begin() and end(), iterate a clone to None, then shard the     *)
(* original and iterate every shard to None.                               *)
(***************************************************************************)
\* the choice sets: sizes gives each set's size; the values of position i
\* are 1..size when overlap holds (the same words may be offered at several
\* positions) and otherwise are tagged with the position, so that a value
\* names the choice set it came from
ChoiceSets(n, sizes, overlap) ==
    [i \in 1..n |->
        [v \in 1..sizes[i] |->
            IF overlap THEN v ELSE (MaxChoice + 1) * i + v]]

\* Seed::validate_combinations: the permutable indices are the positions
\* not anchored, in ascending order, and no anchored position lies at or
\* beyond the length; Combinations::new: no index, length = n
PermuteIndexSets(n, length) ==
    {S \in SUBSET (0..(n - 1)) : \A i \in length..(n - 1) : i \in S}

InitComb ==
    /\ \E n \in 0..MaxPos : \E sizes \in [1..n -> 1..MaxChoice] :
       \E overlap \in BOOLEAN : \E length \in 0..n :
       \E S \in PermuteIndexSets(n, length) :
           /\ product(sizes) <= MaxProduct
           /\ comb = Combinations_permute(ChoiceSets(n, sizes, overlap),
                                          SetToSeq(S), length)
    /\ comb_iter = comb
    /\ comb_out = <<>>
    /\ comb_used = <<>>
    /\ comb_none = 0
    /\ report = <<>>
    /\ comb_num = 0
    /\ comb_shards = <<>>
    /\ comb_shard_out = <<>>
    /\ PermIdle
    /\ PlanIdle
    /\ RunIdle
    /\ panic = FALSE

\* total(), begin() and end() of the enumerator as constructed
CombDescribe ==
    /\ ~panic
    /\ comb # <<>>
    /\ report = <<>>
    /\ report' = [total |-> Combinations_total(comb),
                  begin |-> Combinations_begin(comb),
                  end   |-> Combinations_end(comb)]
    /\ UNCHANGED <<comb, comb_iter, comb_out, comb_used, comb_none, comb_num,
                   comb_shards, comb_shard_out, permVars, planVars,
                   runVars, panic>>

\* the loop body of expand once seed.next() has returned r
CombNextReturns(r) ==
    /\ comb_iter' = r.c
    /\ comb_out' = IF r.ret.some THEN Append(comb_out, r.ret.val) ELSE comb_out
    /\ comb_used' = IF r.ret.some THEN Append(comb_used, comb_iter.permutation)
                    ELSE comb_used
    /\ comb_none' = IF r.ret.some THEN comb_none ELSE comb_none + 1
    /\ UNCHANGED <<comb, report, comb_num, comb_shards, comb_shard_out,
                   permVars, planVars, runVars, panic>>

\* one seed.next() of the while-let loop, and MaxNone - 1 calls after None
CombNext ==
    /\ ~panic
    /\ report # <<>>
    /\ comb_num = 0
    /\ comb_none < MaxNone
    /\ IF Combinations_next_panics(comb_iter)
       THEN /\ panic' = TRUE
            /\ UNCHANGED <<permVars, combVars, planVars, runVars>>
       ELSE CombNextReturns(Combinations_next(comb_iter))

\* while let Some(next) = seed.next() { expanded.push(next.clone()) }
RECURSIVE expand(_, _)
\* the loop body, r being what seed.next() returned
expand_push(r, expanded) ==
    IF r.ret.some THEN expand(r.c, Append(expanded, r.ret.val))
    ELSE expanded

expand(seed, expanded) == expand_push(Combinations_next(seed), expanded)

\* expand over the shards made by shard(n)
CombShardReturns(n, made) ==
    /\ comb_num' = n
    /\ comb_shards' = made
    /\ comb_shard_out' = [x \in 1..Len(made) |-> expand(made[x], <<>>)]

\* combinations.shard(n) and every shard iterated to its None
CombShard ==
    /\ ~panic
    /\ comb_num = 0
    /\ comb_none = MaxNone
    /\ \E n \in 1..MaxNum : CombShardReturns(n, Combinations_shard(comb, n))
    /\ UNCHANGED <<comb, comb_iter, comb_out, comb_used, comb_none, report,
                   permVars, planVars, runVars, panic>>

NextComb == CombDescribe \/ CombNext \/ CombShard

SpecComb == InitComb /\ [][NextComb]_vars

(***************************************************************************)
(* Driving a Passphrase as tests::validates_passphrase,                    *)
(* tests::can_add_binary_charsets and                                      *)
(* tests::passphrase_can_add_binary_charsets do: parse the arguments,      *)
(* then add the binary charsets to the charsets and to the passphrase.     *)
(***************************************************************************)
\* the characters of the arguments
PassChars == {"?", "d", ",", DICT_PATH}

\* the strings of at most n characters
RECURSIVE Strings(_)
Strings(n) ==
    IF n = 0 THEN {<<>>}
    ELSE Strings(n - 1)
             \cup {Append(s, c) : s \in Strings(n - 1), c \in PassChars}

\* up to two arguments, and three equal arguments
ArgVecs ==
    {<<>>} \cup {<<a>> : a \in Strings(MaxArgLen)}
           \cup {<<a, b>> : a, b \in Strings(MaxArgLen)}
           \cup {<<a, a, a>> : a \in Strings(MaxArgLen)}

\* --custom-charset1 .. --custom-charset4 of main.rs
CharsetArgs == [1..4 -> {None, Some(<<"a", "b">>)}]

\* the (guesses, entropy_bits) asked for keep every total below 2^31
FitsTotal(guesses, entropy_bits) == 11 * (guesses - 1) + entropy_bits <= MaxBits

\* entropy_bits of 24 and of 12 words, and the 2 and 10 of the tests
EntropyBits == {2, 3, 7, 10}

InitPass ==
    /\ pass_args \in ArgVecs
    /\ pass_charsets \in CharsetArgs
    /\ pass = <<>>
    /\ pass_bin = <<>>
    /\ charsets_bin = <<>>
    /\ PermIdle
    /\ CombIdle
    /\ DerivIdle
    /\ SeedIdle
    /\ RunIdle
    /\ panic = FALSE

\* Passphrase::from_arg(&args, &charsets)
PassFromArg ==
    /\ pass = <<>>
    /\ pass' = Passphrase_from_arg(pass_args, pass_charsets)
    /\ UNCHANGED <<pass_args, pass_charsets, pass_bin, charsets_bin, permVars,
                   combVars, derivVars, seedVars, runVars, panic>>

\* charsets.add_binary_charsets(entropy_bits) on the UserCharsets of the
\* arguments
CharsetsAddBinary ==
    /\ pass_args = <<>>
    /\ charsets_bin = <<>>
    /\ \E entropy_bits \in EntropyBits :
           charsets_bin' =
               [entropy_bits |-> entropy_bits,
                before |-> UserCharsets_new(pass_charsets),
                result |-> UserCharsets_add_binary_charsets(
                               UserCharsets_new(pass_charsets), entropy_bits)]
    /\ UNCHANGED <<pass_args, pass_charsets, pass, pass_bin, permVars,
                   combVars, derivVars, seedVars, runVars, panic>>

\* pp.add_binary_charsets(guesses, entropy_bits) on the parsed passphrase
PassAddBinary ==
    /\ pass # <<>>
    /\ pass.ok
    /\ pass_bin = <<>>
    /\ \E guesses \in 1..MaxGuesses : \E entropy_bits \in EntropyBits :
           /\ FitsTotal(guesses, entropy_bits)
           /\ pass_bin' =
                  [guesses |-> guesses,
                   entropy_bits |-> entropy_bits,
                   result |-> Passphrase_add_binary_charsets(
                                  pass.val, guesses, entropy_bits)]
    /\ UNCHANGED <<pass_args, pass_charsets, pass, charsets_bin, permVars,
                   combVars, derivVars, seedVars, runVars, panic>>

NextPass == PassFromArg \/ CharsetsAddBinary \/ PassAddBinary

SpecPass == InitPass /\ [][NextPass]_vars

(***************************************************************************)
(* Driving AddressValid::derivation as tests::parses_derivations does:     *)
(* the derivations of an argument, then their hash_ratio.                  *)
(***************************************************************************)
\* the path elements of the arguments: a number, a hardened number, a
\* hardened '?' of two nodes, a '?' of MaxNode + 1 nodes and a bad element
PathElements ==
    { <<"0">>, <<"1", "'">>, <<"?", "1", "h">>, <<"?">> \o to_string(MaxNode),
      <<"x">> }

\* the argument of the first n of the elements, the x-th of them starting a
\* new path where new[x], the paths separated by sep
RECURSIVE DerivationArg(_, _, _, _)
DerivationArg(elems, new, sep, n) ==
    IF n = 1 THEN <<"m", "/">> \o elems[1]
    ELSE DerivationArg(elems, new, sep, n - 1)
             \o (IF new[n] THEN <<sep, "m", "/">> ELSE <<"/">>) \o elems[n]

\* two paths separated by a space, and two arguments that do not start
\* with "m/"
OtherDerivationArgs ==
    { <<"m", "/", "0", " ", "m", "/", "1", "/", "?", "2">>, <<>>,
      <<"z", "/", "?", "2">> }

InitDeriv ==
    /\ \/ deriv_arg = None /\ deriv_kind \in address_kinds
       \/ /\ \/ \E n \in 1..MaxElems : \E elems \in [1..n -> PathElements] :
                    \E new \in [1..n -> BOOLEAN] : \E sep \in {",", "|"} :
                        deriv_arg = Some(DerivationArg(elems, new, sep, n))
             \/ deriv_arg \in {Some(a) : a \in OtherDerivationArgs}
          /\ deriv_kind = << <<"m", "/", "1", "2", "3">> >>
    /\ deriv = <<>>
    /\ ratio = <<>>
    /\ PermIdle
    /\ CombIdle
    /\ PassIdle
    /\ SeedIdle
    /\ RunIdle
    /\ panic = FALSE

\* AddressValid::derivation(&kind, &arg)
Derivation ==
    /\ deriv = <<>>
    /\ deriv' = AddressValid_derivation(deriv_kind, deriv_arg)
    /\ UNCHANGED <<deriv_kind, deriv_arg, ratio, permVars, combVars, passVars,
                   seedVars, runVars, panic>>

\* derivation.hash_ratio()
HashRatio ==
    /\ deriv # <<>>
    /\ deriv.ok
    /\ ratio = <<>>
    /\ ratio' = Derivations_hash_ratio(deriv.val)
    /\ UNCHANGED <<deriv_kind, deriv_arg, deriv, permVars, combVars, passVars,
                   seedVars, runVars, panic>>

NextDeriv == Derivation \/ HashRatio

SpecDeriv == InitDeriv /\ [][NextDeriv]_vars

(***************************************************************************)
(* Driving a Seed as the tests of seed.rs do: Seed::from_args on the words *)
(* looked up, then next_valid() until None, valid_seeds() and              *)
(* binary_charsets(max_args, &passphrase).                                 *)
(***************************************************************************)
\* "zoo", "zoo|able", the ManyWords words of a prefix, and "?"
SlotChoices ==
    { <<2047>>, <<2047, 2>>, [x \in 1..ManyWords |-> x + 99],
      [x \in 1..NUM_WORDS |-> x - 1] }

\* the lengths of the seeds: 3 words as tests::can_validate_checksums, and 12
SeedLengths == {3, 12}

\* the positions whose words vary: the first and the last two
SeedSlots(len) == {0, len - 2, len - 1}

\* the bits of a choice among size words
RECURSIVE BitsOf(_)
BitsOf(size) == IF size <= 1 THEN 0 ELSE 1 + BitsOf((size + 1) \div 2)

\* the total of the words stays below 2^MaxBits
RECURSIVE SeedBits(_, _)
SeedBits(words, n) ==
    IF n = 0 THEN 0 ELSE SeedBits(words, n - 1) + BitsOf(Len(words[n]))

SeedFits(words) == SeedBits(words, Len(words)) <= MaxBits

\* a seed whose total is below EXACT_VALID_MAX is counted when it has at
\* most MaxExact tuples
SeedCounted(total) == total <= MaxExact \/ total >= EXACT_VALID_MAX

\* the words of a seed of len words, f giving the varying ones
SeedWords(len, f) ==
    [x \in 1..len |-> IF (x - 1) \in DOMAIN f THEN f[x - 1] ELSE <<2047>>]

\* the passphrases of binary_charsets and get_mode: none, a mask, a
\* dictionary, and a mask with the four custom charsets in use
PassphraseOptions ==
    { None,
      Some(Passphrase_from_arg(<< <<"?", "d">> >>,
                               <<None, None, None, None>>).val),
      Some(Passphrase_from_arg(<< <<DICT_PATH>> >>,
                               <<None, Some(<<"a", "b">>), None, None>>).val),
      Some(Passphrase_from_arg(
               << <<"?", "1">> >>,
               <<Some(<<"a">>), Some(<<"b">>), Some(<<"c">>),
                 Some(<<"d">>)>>).val) }

\* max_args: 0 and 10 of tests::uses_binary_charsets, and max_hashes
MaxArgs == {0, 10, DEFAULT_MAX_HASHES}

InitSeed ==
    /\ \/ /\ \E len \in SeedLengths : \E f \in [SeedSlots(len) -> SlotChoices] :
                 /\ seed_words = SeedWords(len, f)
                 /\ SeedFits(seed_words)
          /\ seed_anchored = {}
          /\ seed_combo = None
       \/ /\ \E extra \in 0..1 : \E f \in [{11, 11 + extra} -> SlotChoices] :
                 /\ seed_words = SeedWords(12 + extra, f)
                 /\ SeedFits(seed_words)
          /\ \E free \in SUBSET {0, 11} : seed_anchored = (0..11) \ free
          /\ seed_combo \in {Some(12), Some(13)}
    /\ seed_new = <<>>
    /\ seed_iter = <<>>
    /\ seed_out = <<>>
    /\ seed_none = 0
    /\ seed_valid = <<>>
    /\ seed_bin = <<>>
    /\ hc_mode = <<>>
    /\ PermIdle
    /\ CombIdle
    /\ PassIdle
    /\ DerivIdle
    /\ RunIdle
    /\ panic = FALSE

\* Seed::from_args(..), and the seed to iterate .with_pure_gpu(..)
SeedFromArgs ==
    /\ seed_new = <<>>
    /\ seed_new' = Seed_from_args(seed_words, seed_anchored, seed_combo)
    /\ \E is_pure_gpu \in BOOLEAN :
           seed_iter' = IF seed_new'.ok
                        THEN Seed_with_pure_gpu(seed_new'.val, is_pure_gpu)
                        ELSE <<>>
    /\ UNCHANGED <<seed_words, seed_anchored, seed_combo, seed_out, seed_none,
                   seed_valid, seed_bin, hc_mode, permVars, combVars,
                   passVars, derivVars, runVars, panic>>

\* what follows seed.next_valid() returning r
SeedNextValidReturns(r) ==
    /\ seed_iter' = r.s
    /\ seed_out' = IF r.ret.some
                   THEN Append(seed_out, [tuple |-> r.s.words.next,
                                          encoded |-> r.ret.val])
                   ELSE seed_out
    /\ seed_none' = IF r.ret.some THEN seed_none ELSE seed_none + 1
    /\ UNCHANGED <<seed_words, seed_anchored, seed_combo, seed_new, seed_valid,
                   seed_bin, hc_mode, permVars, combVars, passVars,
                   derivVars, runVars, panic>>

\* one seed.next_valid(), and MaxNone - 1 calls after None
SeedNextValid ==
    /\ seed_new # <<>>
    /\ seed_new.ok
    /\ seed_valid = <<>>
    /\ seed_bin = <<>>
    /\ hc_mode = <<>>
    /\ Seed_total(seed_new.val) <= MaxExact
    /\ seed_none < MaxNone
    /\ SeedNextValidReturns(Seed_next_valid(seed_iter))

\* seed.total() and seed.valid_seeds()
SeedValidSeeds ==
    /\ seed_new # <<>>
    /\ seed_new.ok
    /\ seed_valid = <<>>
    /\ seed_bin = <<>>
    /\ hc_mode = <<>>
    /\ seed_out = <<>>
    /\ seed_none = 0
    /\ SeedCounted(Seed_total(seed_new.val))
    /\ seed_valid' = [total |-> Seed_total(seed_new.val),
                      valid |-> Seed_valid_seeds(seed_new.val)]
    /\ UNCHANGED <<seed_words, seed_anchored, seed_combo, seed_new, seed_iter,
                   seed_out, seed_none, seed_bin, hc_mode, permVars,
                   combVars, passVars, derivVars, runVars, panic>>

\* seed.binary_charsets(max_args, &passphrase)
SeedBinaryCharsets ==
    /\ seed_new # <<>>
    /\ seed_new.ok
    /\ seed_bin = <<>>
    /\ hc_mode = <<>>
    /\ seed_valid = <<>>
    /\ seed_out = <<>>
    /\ seed_none = 0
    /\ \E max_args \in MaxArgs : \E passphrase \in PassphraseOptions :
           seed_bin' = [max_args |-> max_args,
                        passphrase |-> passphrase,
                        result |-> Seed_binary_charsets(seed_new.val, max_args,
                                                        passphrase)]
    /\ UNCHANGED <<seed_words, seed_anchored, seed_combo, seed_new, seed_iter,
                   seed_out, seed_none, seed_valid, hc_mode, permVars,
                   combVars, passVars, derivVars, runVars, panic>>

\* the --derivation arguments of the planned runs: the one of the tests of
\* hashcat.rs and one of 64 argument lines
ModeDerivations ==
    { <<"m", "/", "0", "/", "0">>, <<"m", "/", "?", "6", "3">> }

\* the passphrases of the planned runs: those of binary_charsets and the
\* "?d?d?d?d" of tests::determines_whether_to_run_pure_gpu
ModePassphrases ==
    PassphraseOptions
        \cup { Some(Passphrase_from_arg(
                        << <<"?", "d", "?", "d", "?", "d", "?", "d">> >>,
                        <<None, None, None, None>>).val) }

\* <<max_hashes, min_passphrases>>: the defaults, and the values that
\* tests.rs sets
ModeLimits ==
    { <<DEFAULT_MAX_HASHES, DEFAULT_MIN_PASSPHRASES>>,
      <<DEFAULT_MAX_HASHES, 0>>, <<0, DEFAULT_MIN_PASSPHRASES>> }

\* the passphrases of the binary charsets stay below 2^31
ModeFits(s, passphrase) ==
    \/ binary_charsets_last_fixed(Combinations_elements(s.words))
    \/ BitsOf(Passphrase_total(unwrap_or_empty_mask(passphrase)))
           + 11 * (binary_charsets_guesses(Combinations_elements(s.words)) - 1)
           + s.encoder.entropy_bits < 31

\* a seed whose total is below EXACT_VALID_MAX is planned when it has at most
\* MaxPlanned tuples
SeedPlanned(total) == total <= MaxPlanned \/ total >= EXACT_VALID_MAX

\* the Hashcat that configure() builds of the seed
ModeHashcat(derivation, passphrase, limits) ==
    [Hashcat_new(
         AddressValid_new(
             AddressValid_derivation(<<>>, Some(derivation)).val),
         seed_new.val, passphrase)
        EXCEPT !.max_hashes = limits[1], !.min_passphrases = limits[2]]

\* configure(): seed.validate_length()?, Hashcat::new(..), the limits set as
\* tests.rs does, and then hashcat.get_mode()
HashcatGetMode ==
    /\ seed_new # <<>>
    /\ seed_new.ok
    /\ Combinations_len(seed_new.val.words) \in VALID_LENGTHS
    /\ hc_mode = <<>>
    /\ seed_bin = <<>>
    /\ seed_valid = <<>>
    /\ seed_out = <<>>
    /\ seed_none = 0
    /\ SeedPlanned(Seed_total(seed_new.val))
    /\ \E derivation \in ModeDerivations : \E passphrase \in ModePassphrases :
       \E limits \in ModeLimits :
           /\ ModeFits(seed_new.val, passphrase)
           /\ \E hashcat \in {ModeHashcat(derivation, passphrase, limits)} :
                  hc_mode' = [hashcat |-> hashcat,
                              result |-> Hashcat_get_mode(hashcat)]
    /\ UNCHANGED <<seed_words, seed_anchored, seed_combo, seed_new, seed_iter,
                   seed_out, seed_none, seed_valid, seed_bin, permVars,
                   combVars, passVars, derivVars, runVars, panic>>

NextSeed ==
    SeedFromArgs \/ SeedNextValid \/ SeedValidSeeds \/ SeedBinaryCharsets

SpecSeed == InitSeed /\ [][NextSeed]_vars

\* the seeds of the planned runs: 12 words, those of
\* tests::determines_whether_to_run_pure_gpu among them, and seeds of
\* --combinations 12
InitMode ==
    /\ \/ /\ \E f \in [{0, 10, 11} -> SlotChoices] :
                 /\ seed_words = SeedWords(12, f)
                 /\ SeedFits(seed_words)
          /\ seed_anchored = {}
          /\ seed_combo = None
       \/ /\ \E f \in [{11} -> SlotChoices] : seed_words = SeedWords(12, f)
          /\ \E free \in SUBSET {0, 11} : seed_anchored = (0..11) \ free
          /\ seed_combo = Some(12)
    /\ seed_new = <<>>
    /\ seed_iter = <<>>
    /\ seed_out = <<>>
    /\ seed_none = 0
    /\ seed_valid = <<>>
    /\ seed_bin = <<>>
    /\ hc_mode = <<>>
    /\ PermIdle
    /\ CombIdle
    /\ PassIdle
    /\ DerivIdle
    /\ RunIdle
    /\ panic = FALSE

NextMode == SeedFromArgs \/ HashcatGetMode

SpecMode == InitMode /\ [][NextMode]_vars

(***************************************************************************)
(* Driving the encoder as tests::can_convert_words does: a seed            *)
(* from_vecs of fixed words and of words to guess (a vector of two equal   *)
(* words makes the position one to guess), then next_encoded().            *)
(***************************************************************************)
\* the numbers of words: the valid ones, and the 3 of the checksum tests
EncLengths == VALID_LENGTHS \cup {3}

\* the positions that differ from zeros(): the first and the last two
EncSlots(len) == {0, len - 2, len - 1}

\* a word before the last: fixed, or to guess
EncWordChoices == { <<0>>, <<0, 0>>, <<1847, 1847>> }

\* the last word: every checksum under the least entropy, fixed or to
\* guess, and every checksum under the greatest entropy, to guess
EncLastChoices(len) ==
    { <<c>> : c \in 0..(2^(len \div 3) - 1) }
        \cup { <<c, c>> : c \in 0..(2^(len \div 3) - 1) }
        \cup { <<2048 - 2^(len \div 3) + c, 2048 - 2^(len \div 3) + c>> :
                   c \in 0..(2^(len \div 3) - 1) }

EncWords(len, f, last) ==
    [x \in 1..len |-> IF x = len THEN last
                      ELSE IF (x - 1) \in DOMAIN f THEN f[x - 1] ELSE <<0>>]

InitEnc ==
    /\ \E len \in EncLengths :
           \E f \in [EncSlots(len) \ {len - 1} -> EncWordChoices] :
               \E last \in EncLastChoices(len) :
                   enc_words = EncWords(len, f, last)
    /\ enc_out = <<>>
    /\ FoundIdle
    /\ hc_run = <<>>
    /\ ArgsIdle
    /\ TaskIdle
    /\ SysIdle
    /\ PermIdle
    /\ CombIdle
    /\ PlanIdle
    /\ panic = FALSE

\* what follows seed.next_encoded() returning r on the seed built
EncNextReturns(seed, r) ==
    /\ enc_out' = [seed |-> seed, tuple |-> r.s.words.next,
                   encoded |-> r.ret]
    /\ UNCHANGED <<enc_words, foundVars, hc_run, argsVars, taskVars, sysVars, permVars,
                   combVars, planVars, panic>>

\* Seed::from_vecs(test).with_pure_gpu(..).next_encoded()
EncNext ==
    /\ enc_words # <<>>
    /\ enc_out = <<>>
    /\ \E is_pure_gpu \in BOOLEAN :
           \E seed \in {Seed_with_pure_gpu(Seed_from_vecs(enc_words),
                                           is_pure_gpu)} :
               EncNextReturns(seed, Seed_next_encoded(seed))

NextEnc == EncNext

SpecEnc == InitEnc /\ [][NextEnc]_vars

(***************************************************************************)
(* Driving Seed::found as tests::creates_finished_result does: a seed of   *)
(* fixed words and words to guess, and the words that hashcat printed.     *)
(***************************************************************************)
\* the numbers of words: "?,zoo", "jazz,?,?,zoo" and a seed of 12 words
FoundLengths == {2, 4, 12}

\* "jazz", or a word to guess
FoundWordChoices == { <<955>>, <<0, 0>> }

\* the fields of the output: empty, a word, a passphrase
FoundFields == { <<>>, <<"a", "b", "l", "e">>, <<"p", "w">> }

\* the outputs of at most MaxFields fields, and no output
FoundArgs ==
    {None} \cup
    UNION {{Some(join(fs, ",")) : fs \in [1..n -> FoundFields]} :
              n \in 1..MaxFields}

InitFound ==
    /\ \E len \in FoundLengths :
           \E f \in [EncSlots(len) \cup {1} -> FoundWordChoices] :
               enc_words = [x \in 1..len |-> IF (x - 1) \in DOMAIN f
                                             THEN f[x - 1] ELSE <<2047>>]
    /\ enc_out = <<>>
    /\ found_arg \in FoundArgs
    /\ found_out = <<>>
    /\ hc_run = <<>>
    /\ ArgsIdle
    /\ TaskIdle
    /\ SysIdle
    /\ PermIdle
    /\ CombIdle
    /\ PlanIdle
    /\ panic = FALSE

\* s.with_pure_gpu(..).found(found)
SeedFound ==
    /\ found_arg # <<>>
    /\ found_out = <<>>
    /\ \E is_pure_gpu \in BOOLEAN :
           \E seed \in {Seed_with_pure_gpu(Seed_from_vecs(enc_words),
                                           is_pure_gpu)} :
               found_out' = [seed |-> seed,
                             result |-> Seed_found(seed, found_arg)]
    /\ UNCHANGED <<encVars, found_arg, hc_run, argsVars, taskVars, sysVars, permVars,
                   combVars, planVars, panic>>

NextFound == SeedFound

SpecFound == InitFound /\ [][NextFound]_vars

(***************************************************************************)
(* Running hashcat: Hashcat::run from its call to its return, one action   *)
(* for each stretch of it between two awaits.  What the file system and    *)
(* hashcat do is chosen by the actions: whether a file is created or       *)
(* written, whether the process starts, and the lines that it prints.      *)
(***************************************************************************)
\* address.formatted of the run
RunAddress == <<"b", "c", "1">>

\* the lines that hashcat prints: a start time, two malformed ones, a
\* progress, a malformed one, a device, a status, and two matches
RunLines ==
    {
        <<"T", "i", "m", "e", ".", "S", "t", "a", "r", "t", "e", "d", ".",
          ".", ".", ".", ".", ":", " ", "n", "o", "w", " ", "(", "5", " ",
          "s", "e", "c", "s", ")">>,
        <<"T", "i", "m", "e", ".", "S", "t", "a", "r", "t", "e", "d", ".",
          ".", ".", ".", ".", ":", " ", "n", "o", "w">>,
        <<"T", "i", "m", "e", ".", "S", "t", "a", "r", "t", "e", "d", ".",
          ".", ".", ".", ".", ":", " ", "n", "o", "w", " ", "(", "s", "o",
          "o", "n", ")">>,
        <<"P", "r", "o", "g", "r", "e", "s", "s", ".", ".", ".", ".", ".",
          ".", ".", ".", ".", ":", " ", "1", "2", "/", "3", "4", " ", "(",
          "3", "5", "%", ")">>,
        <<"P", "r", "o", "g", "r", "e", "s", "s", ".", ".", ".", ".", ".",
          ".", ".", ".", ".", ":", " ", "n", "/", "a">>,
        <<"*", " ", "D", "e", "v", "i", "c", "e", " ", "#", "1", ":", " ",
          "G", "P", "U">>,
        <<"S", "t", "a", "t", "u", "s", ".", ".", ".", ".", ".", ".", ".",
          ".", ".", ".", ".", ":", " ", "R", "u", "n", "n", "i", "n", "g">>,
        <<"b", "c", "1", ":", "a", "b", "l", "e", ",", "p", "w">>,
        <<"b", "c", "1", ":">> }

\* a seed of two candidates with one word to guess ("zoo|able" first), and
\* a seed whose last two words are '?'
RunSeeds ==
    { Seed_from_args(SeedWords(12, f), {}, None).val :
          f \in { [x \in {0} |-> <<2047, 2>>],
                  [x \in {10, 11} |-> [y \in 1..NUM_WORDS |-> y - 1]] } }

\* no passphrase, the mask "?d", and "?1" with the four custom charsets set
RunPassphrases ==
    { None,
      Some(Passphrase_from_arg(<< <<"?", "d">> >>,
                               <<None, None, None, None>>).val),
      Some(Passphrase_from_arg(
               << <<"?", "1">> >>,
               <<Some(<<"a">>), Some(<<"b">>), Some(<<"c">>),
                 Some(<<"d">>)>>).val) }

\* the Hashcat of configure(), the limits set as tests.rs does
RunHashcat(seed, passphrase, limits) ==
    [Hashcat_new(
         AddressValid_new(
             AddressValid_derivation(
                 <<>>, Some(<<"m", "/", "0", "/", "0">>)).val),
         seed, passphrase)
        EXCEPT !.max_hashes = limits[1], !.min_passphrases = limits[2]]

InitRun ==
    /\ \E seed \in RunSeeds : \E passphrase \in RunPassphrases :
           \E limits \in ModeLimits :
               hc_run = Run_new(RunHashcat(seed, passphrase, limits),
                                RunAddress)
    /\ EncIdle
    /\ FoundIdle
    /\ ArgsIdle
    /\ TaskIdle
    /\ SysIdle
    /\ PermIdle
    /\ CombIdle
    /\ PlanIdle
    /\ panic = FALSE

\* the variables that a run leaves alone
RunFrame ==
    UNCHANGED <<encVars, foundVars, argsVars, taskVars, sysVars, permVars, combVars,
                planVars, panic>>

\* run() up to write_hashes
RunPlan ==
    /\ hc_run # <<>>
    /\ hc_run.pc = "new"
    /\ \E built \in BOOLEAN : \E built_binary \in BOOLEAN :
           hc_run' = run_plan(hc_run, built, built_binary)
    /\ RunFrame

\* write_hashes creates the file of the hashes
RunWriteCreate ==
    /\ hc_run # <<>>
    /\ hc_run.pc = "planned"
    /\ \E created \in BOOLEAN :
           hc_run' = write_hashes_create(hc_run, created)
    /\ RunFrame

\* write_hashes writes the hashes received and finishes the file
RunWriteFinish ==
    /\ hc_run # <<>>
    /\ hc_run.pc = "writing"
    /\ \E written \in BOOLEAN :
           hc_run' = write_hashes_finish(hc_run, written)
    /\ RunFrame

\* spawn_hashcat, and the stdin sender of the stdin modes
RunSpawn ==
    /\ hc_run # <<>>
    /\ hc_run.pc = "written"
    /\ \E started \in BOOLEAN : hc_run' = spawn_hashcat(hc_run, started)
    /\ RunFrame

\* run_helper and run_stdout up to the loop
RunHelper ==
    /\ hc_run # <<>>
    /\ hc_run.pc = "spawned"
    /\ \E created \in BOOLEAN : hc_run' = run_helper_files(hc_run, created)
    /\ RunFrame

\* one round of the loop of run_stdout: hashcat has printed a line
RunStdoutLine ==
    /\ hc_run # <<>>
    /\ hc_run.pc = "reading"
    /\ Len(hc_run.seen) < MaxLines
    /\ \E line \in RunLines : \E read \in BOOLEAN : \E written \in BOOLEAN :
           hc_run' = IF ~read THEN run_return(hc_run, Err)
                  ELSE run_stdout_read(
                           hc_run, line,
                           run_stdout_line(hc_run.timer, line,
                                           hc_run.address),
                           written)
    /\ RunFrame

\* the output of hashcat has ended
RunStdoutEof ==
    /\ hc_run # <<>>
    /\ hc_run.pc = "reading"
    /\ hc_run' = run_stdout_eof(hc_run)
    /\ RunFrame

\* run_helper once run_stdout has returned
RunFound ==
    /\ hc_run # <<>>
    /\ hc_run.pc = "read"
    /\ hc_run' = run_helper_found(
                     hc_run, Seed_found(hc_run.hashcat.seed, hc_run.result))
    /\ RunFrame

NextRun ==
    \/ RunPlan \/ RunWriteCreate \/ RunWriteFinish \/ RunSpawn \/ RunHelper
    \/ RunStdoutLine \/ RunStdoutEof \/ RunFound

SpecRun == InitRun /\ [][NextRun]_vars

(***************************************************************************)
(* Parsing the --seed argument: Seed::from_args on arguments typed as      *)
(* tests::parses_seeds_words and tests::validates_combinations type them.  *)
(***************************************************************************)
\* the alternatives typed: words, and patterns of which every match in the
\* word list is among KnownWords, or none, or all ("?")
ArgAlternatives ==
    { <<"z", "o", "o">>, <<"a", "b", "l", "e">>,
      <<"p", "u", "p", "p", "y">>, <<"z", "o", "?">>, <<"?", "o", "o">>,
      <<"?", "z", "o", "?">>, <<"?", "o", "r", "r", "o", "?">>,
      <<"?", "p", "p", "y">>, <<"a", "b", "l", "?">>,
      <<"?", "a", "z", "z">>, <<"z", "z", "?">>, <<"z", "z">>, <<"?">> }

\* those typed on either side of a '|'
ArgPaired ==
    { <<"z", "o", "o">>, <<"p", "u", "p", "p", "y">>, <<"z", "o", "?">>,
      <<"?", "o", "o">>, <<"z", "z", "?">> }

\* the first word typed: an alternative, two of them, or an anchored one
ArgFirst ==
    ArgAlternatives
        \cup {a \o <<"|">> \o b : a, b \in ArgPaired}
        \cup {<<"^">> \o a : a \in {<<"z", "o", "o">>, <<"z", "o", "?">>}}

\* the words typed after it
ArgFollow ==
    { <<"z", "o", "o">>, <<"z", "o", "?">> }

ArgSeparators == {",", " "}

\* the arguments given without --combinations, of up to MaxTokens words
ArgTyped ==
    {join(<<first>> \o rest, sep) :
         first \in ArgFirst,
         rest \in UNION {[1..n -> ArgFollow] : n \in 0..(MaxTokens - 1)},
         sep \in ArgSeparators}

\* --combinations: the lengths, and what lies around and between them
ComboCounts == 11..MaxCombo

\* how many words are anchored
ComboAnchors == {0, 1, 4, 12, 13}

\* how many words are typed with --combinations k
ComboSupplied(k) == {k - 1, k, k + 1, MaxSupplied}

\* n words "zoo", the first or the last a of them anchored
ComboWords(n, a, first) ==
    [x \in 1..n |-> IF (first /\ x <= a) \/ (~first /\ x > n - a)
                    THEN <<"^">> \o <<"z", "o", "o">>
                    ELSE <<"z", "o", "o">>]

InitArgs ==
    /\ \/ /\ args_arg \in ArgTyped
          /\ args_combo = None
       \/ \E k \in ComboCounts : \E n \in ComboSupplied(k) :
              \E a \in {c \in ComboAnchors : c <= n} :
                  \E first \in BOOLEAN : \E sep \in ArgSeparators :
                      /\ args_arg = join(ComboWords(n, a, first), sep)
                      /\ args_combo = Some(k)
    /\ args_ret = <<>>
    /\ TaskIdle
    /\ SysIdle
    /\ EncIdle
    /\ FoundIdle
    /\ hc_run = <<>>
    /\ PermIdle
    /\ CombIdle
    /\ PlanIdle
    /\ panic = FALSE

\* Seed::from_args(arg, combo_arg), in a build of either kind
FromArgs ==
    /\ args_combo # <<>>
    /\ args_ret = <<>>
    /\ \E parsed \in {from_args_for(from_args_split(args_arg), 1, {}, <<>>)} :
           \E overflow_checks \in BOOLEAN :
               args_ret' = from_args_parsed(parsed, args_combo,
                                            overflow_checks)
    /\ panic' = args_ret'.panics
    /\ UNCHANGED <<args_arg, args_combo, taskVars, sysVars, encVars, foundVars, hc_run,
                   permVars, combVars, planVars>>

NextArgs == FromArgs

SpecArgs == InitArgs /\ [][NextArgs]_vars

(***************************************************************************)
(* Feeding hashcat: a stdin_sender from its spawn to its flush, one action *)
(* for each stretch between two awaits, the hashcat --stdout that prints   *)
(* the passphrases sending beside it.                                      *)
(***************************************************************************)
\* the x-th seed candidate and the x-th passphrase
FeedSeed(x) == <<"s">> \o to_string(x)

FeedPass(x) == <<"p">> \o to_string(x)

InitFeed ==
    /\ \E seeds \in 0..MaxSeeds :
           \E passphrases \in 0..MaxPassphrases :
               feed = Feed_new([x \in 1..seeds |-> FeedSeed(x)],
                               passphrases > 0,
                               [x \in 1..passphrases |-> FeedPass(x)])
    /\ prod = <<>>
    /\ SysIdle
    /\ ArgsIdle
    /\ EncIdle
    /\ FoundIdle
    /\ hc_run = <<>>
    /\ PermIdle
    /\ CombIdle
    /\ PlanIdle
    /\ panic = FALSE

\* the variables that a feed leaves alone
FeedFrame ==
    UNCHANGED <<prod, sysVars, argsVars, encVars, foundVars, hc_run, permVars,
                combVars, planVars, panic>>

\* while let Some(seed) = rx.recv().await, and stdin.flush() at None
FeedRecv ==
    /\ feed # <<>>
    /\ feed.pc = "recv"
    /\ feed' = stdin_sender_recv(feed)
    /\ FeedFrame

\* the spawned hashcat --stdout sends a line
FeedPassphrase ==
    /\ feed # <<>>
    /\ feed.to_send # <<>>
    /\ Len(feed.pass_rx) < CHANNEL_SIZE
    /\ feed' = passphrases_send(feed)
    /\ FeedFrame

\* spawn_passphrases initializes the buffer
FeedInit ==
    /\ feed # <<>>
    /\ feed.pc = "init"
    /\ can_recv(feed)
    /\ feed' = spawn_passphrases_init(feed)
    /\ FeedFrame

\* the passphrases of the buffer are sent with the seed
FeedBuffer ==
    /\ feed # <<>>
    /\ feed.pc = "buffer"
    /\ feed' = stdin_sender_buffer(feed)
    /\ FeedFrame

\* the passphrases of the channel are sent with the seed
FeedStream ==
    /\ feed # <<>>
    /\ feed.pc = "stream"
    /\ can_recv(feed)
    /\ feed' = stdin_sender_stream(feed)
    /\ FeedFrame

\* hashcat finds a match and closes its stdin
FeedClose ==
    /\ feed # <<>>
    /\ feed.pc # "done"
    /\ feed.stdin.open
    /\ feed' = [feed EXCEPT !.stdin.open = FALSE]
    /\ FeedFrame

NextFeed ==
    \/ FeedRecv \/ FeedPassphrase \/ FeedInit \/ FeedBuffer \/ FeedStream
    \/ FeedClose

SpecFeed == InitFeed /\ [][NextFeed]_vars

(***************************************************************************)
(* Sending candidates: the tasks of spawn_seed_senders or the task of      *)
(* spawn_arg_sender, the task that receives from their channel, and the    *)
(* drop of its Receiver (write_hashes returning at a `?`, the stdin_sender *)
(* ending with the run).                                                   *)
(***************************************************************************)
\* what a seed returns to its task: up to MaxItems candidates
ProdSeeds ==
    {[x \in 1..n |-> <<"c">> \o to_string(x)] : n \in 0..MaxItems}

InitProd ==
    /\ \/ \E n \in 1..SEED_TASKS : \E seeds \in [1..n -> ProdSeeds] :
              prod = Prod_new([i \in 1..n |-> Sender_new("seed", seeds[i])])
       \/ \E seed \in ProdSeeds :
              prod = Prod_new(<<Sender_new("arg", seed)>>)
    /\ feed = <<>>
    /\ SysIdle
    /\ ArgsIdle
    /\ EncIdle
    /\ FoundIdle
    /\ hc_run = <<>>
    /\ PermIdle
    /\ CombIdle
    /\ PlanIdle
    /\ panic = FALSE

\* the variables that the senders leave alone
ProdFrame ==
    UNCHANGED <<feed, sysVars, argsVars, encVars, foundVars, hc_run, permVars,
                combVars, planVars, panic>>

\* a seed_sender goes one turn of its loop
ProdSeedSender ==
    /\ prod # <<>>
    /\ \E i \in 1..Len(prod.senders) :
           /\ prod.senders[i].kind = "seed"
           /\ prod.senders[i].state = "running"
           /\ prod.senders[i].seed = <<>> \/ can_send(prod)
           /\ prod' = seed_sender(prod, i)
    /\ ProdFrame

\* the task of spawn_arg_sender goes one turn of its loop
ProdArgSender ==
    /\ prod # <<>>
    /\ \E i \in 1..Len(prod.senders) :
           /\ prod.senders[i].kind = "arg"
           /\ prod.senders[i].state = "running"
           /\ prod.senders[i].seed = <<>> \/ can_send(prod)
           /\ prod' = arg_sender(prod, i)
    /\ ProdFrame

\* the receiving task takes a candidate
ProdRecv ==
    /\ prod # <<>>
    /\ prod.receiver
    /\ prod.channel # <<>>
    /\ prod' = channel_recv(prod)
    /\ ProdFrame

\* the receiving task ends before the channel is closed
ProdDrop ==
    /\ prod # <<>>
    /\ prod.receiver
    /\ prod' = channel_drop(prod)
    /\ ProdFrame

NextProd == ProdSeedSender \/ ProdArgSender \/ ProdRecv \/ ProdDrop

SpecProd == InitProd /\ [][NextProd]_vars

(***************************************************************************)
(* A Timer as tests::timer_starts_and_ends drives it: built by time or     *)
(* time_verbose, started, added to and ended while its task loops.         *)
(***************************************************************************)
\* the totals, multipliers and amounts tried
TimerTotals == {0, 3, U64_MAX - 1, U64_MAX}

TimerMultipliers == 0..MaxMultiplier

TimerAmounts == {1, 2, U64_MAX - 1, U64_MAX}

InitTimer ==
    /\ \/ \E total \in TimerTotals : timer_task = Logger_time(total)
       \/ \E total \in TimerTotals : \E multiplier \in TimerMultipliers :
              timer_task = Logger_time_verbose(total, multiplier)
    /\ shard_run = <<>>
    /\ pipe = <<>>
    /\ hc_new = <<>>
    /\ TaskIdle
    /\ ArgsIdle
    /\ EncIdle
    /\ FoundIdle
    /\ hc_run = <<>>
    /\ PermIdle
    /\ CombIdle
    /\ PlanIdle
    /\ panic = FALSE

\* the variables that a Timer leaves alone
TimerFrame ==
    UNCHANGED <<shard_run, pipe, hc_new, taskVars, argsVars, encVars, foundVars, hc_run,
                permVars, combVars, planVars>>

\* timer.start().await
TimerStart ==
    /\ timer_task # <<>>
    /\ timer_task.pc = "new"
    /\ timer_task' = Timer_start_at(timer_task)
    /\ UNCHANGED panic
    /\ TimerFrame

\* timer.add(amt)
TimerAdd ==
    /\ timer_task # <<>>
    /\ timer_task.pc # "new"
    /\ timer_task.adds < MaxAdds
    /\ \E amt \in TimerAmounts : timer_task' = Timer_add(timer_task, amt)
    /\ UNCHANGED panic
    /\ TimerFrame

\* timer.end()
TimerEnd ==
    /\ timer_task # <<>>
    /\ timer_task.pc # "new"
    /\ timer_task.end = 0
    /\ timer_task' = Timer_end(timer_task)
    /\ UNCHANGED panic
    /\ TimerFrame

\* the task wakes from its sleep and goes through its loop once
TimerLoop ==
    /\ timer_task # <<>>
    /\ timer_task.pc = "loop"
    /\ timer_task' = start_at_loop(timer_task)
    /\ panic' = (timer_task'.pc = "panic")
    /\ TimerFrame

NextTimer == TimerStart \/ TimerAdd \/ TimerEnd \/ TimerLoop

SpecTimer == InitTimer /\ [][NextTimer]_vars

(***************************************************************************)
(* A call of shard(num) on a Permutations, for num from 1 on, num above    *)
(* the number of permutations included.                                    *)
(***************************************************************************)
InitShard ==
    /\ \E elements \in ElementVecs : \E k \in 0..Len(elements) :
       \E n \in 1..MaxNum :
           shard_run = shard_enter(Permutations_new(elements, k), n)
    /\ timer_task = <<>>
    /\ pipe = <<>>
    /\ hc_new = <<>>
    /\ TaskIdle
    /\ ArgsIdle
    /\ EncIdle
    /\ FoundIdle
    /\ hc_run = <<>>
    /\ PermIdle
    /\ CombIdle
    /\ PlanIdle
    /\ panic = FALSE

\* a turn of the while loop; the shards pushed are followed up to MaxPushed
ShardWhile ==
    /\ shard_run # <<>>
    /\ shard_run.pc = "while"
    /\ Len(shard_run.shards) < MaxPushed
    /\ shard_run' = shard_while(shard_run)
    /\ UNCHANGED <<timer_task, pipe, hc_new, taskVars, argsVars, encVars,
                   foundVars, hc_run, permVars, combVars, planVars, panic>>

NextShard == ShardWhile

SpecShard == InitShard /\ [][NextShard]_vars

(***************************************************************************)
(* The tasks of a run: the seed_senders and the task of spawn_arg_sender   *)
(* that the arm of the mode spawns, write_hashes, spawn_hashcat and the    *)
(* stdin_sender, each going a turn of its loop at a time.                  *)
(***************************************************************************)
\* what the seed of task i has yet to return: n candidates
PipeItems(i, n) == [x \in 1..n |-> <<i, x>>]

\* the channel of spawn_seed_senders with a task for each shard
PipeSeeds(counts) ==
    Prod_new([i \in 1..Len(counts) |->
                  Sender_new("seed", PipeItems(i, counts[i]))])

RECURSIVE PipeSent(_)
\* the seeds that the tasks send in all
PipeSent(counts) ==
    IF counts = <<>> THEN 0 ELSE Head(counts) + PipeSent(Tail(counts))

\* how many seeds each of the tasks sends: the tasks differ by their number
\* only, and the larger shards are given the lower numbers
PipeCounts(tasks) ==
    {counts \in [1..tasks -> 0..MaxItems] :
        /\ PipeSent(counts) <= MaxSent
        /\ \A i \in 1..(tasks - 1) : counts[i] >= counts[i + 1]}

\* the channel of spawn_arg_sender with its task
PipeArgs(n) == Prod_new(<<Sender_new("arg", PipeItems(0, n))>>)

InitPipe ==
    /\ \E derivations \in {1, MaxDerivationArgs} :
       \E tasks \in 1..SEED_TASKS :
       \E counts \in PipeCounts(tasks) :
       \E n \in 0..MaxItems :
           /\ \/ pipe = Pipe_new("PureGpu", PipeSeeds(counts), <<>>,
                                 derivations)
              \/ pipe = Pipe_new("BinaryCharsets", <<>>, PipeArgs(n),
                                 derivations)
              \/ pipe = Pipe_new("Stdin", PipeSeeds(counts), PipeArgs(n),
                                 derivations)
    /\ timer_task = <<>>
    /\ shard_run = <<>>
    /\ hc_new = <<>>
    /\ TaskIdle
    /\ ArgsIdle
    /\ EncIdle
    /\ FoundIdle
    /\ hc_run = <<>>
    /\ PermIdle
    /\ CombIdle
    /\ PlanIdle
    /\ panic = FALSE

\* the variables that the tasks leave alone
PipeFrame ==
    UNCHANGED <<timer_task, shard_run, hc_new, taskVars, argsVars, encVars,
                foundVars, hc_run, permVars, combVars, planVars>>

\* a seed_sender goes one turn of its loop
PipeSeedSender ==
    /\ pipe # <<>>
    /\ pipe.seeds # <<>>
    /\ \E i \in 1..Len(pipe.seeds.senders) :
           /\ pipe.seeds.senders[i].state = "running"
           /\ pipe.seeds.senders[i].seed = <<>> \/ can_send(pipe.seeds)
           /\ pipe' = [pipe EXCEPT !.seeds = seed_sender(@, i)]
    /\ UNCHANGED panic
    /\ PipeFrame

\* the task of spawn_arg_sender goes one turn of its loop
PipeArgSender ==
    /\ pipe # <<>>
    /\ pipe.args # <<>>
    /\ pipe.args.senders[1].state = "running"
    /\ pipe.args.senders[1].seed = <<>> \/ can_send(pipe.args)
    /\ pipe' = [pipe EXCEPT !.args = arg_sender(@, 1)]
    /\ UNCHANGED panic
    /\ PipeFrame

\* write_hashes receives a seed and writes its records
PipeWriteHashes ==
    /\ pipe # <<>>
    /\ pipe.pc = "writing"
    /\ recv_some(pipe[write_hashes_receiver(pipe)])
    /\ \E written \in 0..pipe.derivations :
           pipe' = write_hashes_while(pipe, write_hashes_receiver(pipe),
                                      written)
    /\ UNCHANGED panic
    /\ PipeFrame

\* write_hashes receives None and finishes the file
PipeWritten ==
    /\ pipe # <<>>
    /\ pipe.pc = "writing"
    /\ recv_none(pipe[write_hashes_receiver(pipe)])
    /\ \E finished \in BOOLEAN :
           pipe' = write_hashes_return(pipe, write_hashes_receiver(pipe),
                                       finished)
    /\ UNCHANGED panic
    /\ PipeFrame

\* run() spawns hashcat and, in a stdin mode, the stdin_sender
PipeSpawn ==
    /\ pipe # <<>>
    /\ pipe.pc = "written"
    /\ \E started \in BOOLEAN : pipe' = pipe_spawn(pipe, started)
    /\ panic' = (pipe'.pc = "panicked")
    /\ PipeFrame

\* the stdin_sender receives a seed
PipeFeed ==
    /\ pipe # <<>>
    /\ pipe.pc = "feeding"
    /\ recv_some(pipe.seeds)
    /\ pipe' = stdin_sender_while(pipe)
    /\ UNCHANGED panic
    /\ PipeFrame

\* the stdin_sender receives None, flushes and ends
PipeFed ==
    /\ pipe # <<>>
    /\ pipe.pc = "feeding"
    /\ recv_none(pipe.seeds)
    /\ pipe' = stdin_sender_return(pipe)
    /\ UNCHANGED panic
    /\ PipeFrame

NextPipe ==
    \/ PipeSeedSender \/ PipeArgSender \/ PipeWriteHashes \/ PipeWritten
    \/ PipeSpawn \/ PipeFeed \/ PipeFed

SpecPipe == InitPipe /\ [][NextPipe]_vars

\* the runtime goes on polling every task that can go on: none of them is
\* left waiting for good while its channel lets it through
PipeFairness ==
    /\ WF_vars(PipeSeedSender)
    /\ WF_vars(PipeArgSender)
    /\ WF_vars(PipeWriteHashes)
    /\ WF_vars(PipeWritten)
    /\ WF_vars(PipeSpawn)
    /\ WF_vars(PipeFeed)
    /\ WF_vars(PipeFed)

SpecPipeFair == SpecPipe /\ PipeFairness

(***************************************************************************)
(* Configuring: configure from its check of the valid seeds to its check   *)
(* of the total, on every total of a seed, of one to MaxDerivationArgs     *)
(* derivations and of no passphrase or one.                                *)
(***************************************************************************)
\* what a total() can return
U64 == 0..U64_MAX

InitNew ==
    /\ \E seed_total \in U64 :
       \E valid_seeds \in {0, seed_total} :
       \E derivations_total \in 1..MaxDerivationArgs :
       \E passphrase \in {None} \cup {Some(total) : total \in U64} :
           hc_new = Configure_new(seed_total, valid_seeds, derivations_total,
                                  passphrase)
    /\ timer_task = <<>>
    /\ shard_run = <<>>
    /\ pipe = <<>>
    /\ TaskIdle
    /\ ArgsIdle
    /\ EncIdle
    /\ FoundIdle
    /\ hc_run = <<>>
    /\ PermIdle
    /\ CombIdle
    /\ PlanIdle
    /\ panic = FALSE

\* the variables that configure leaves alone
NewFrame ==
    UNCHANGED <<timer_task, shard_run, pipe, taskVars, argsVars, encVars,
                foundVars, hc_run, permVars, combVars, planVars, panic>>

\* configure checks that some seed is valid
NewValidSeeds ==
    /\ hc_new # <<>>
    /\ hc_new.pc = "valid_seeds"
    /\ hc_new' = configure_valid_seeds(hc_new)
    /\ NewFrame

\* configure builds the Hashcat
NewHashcat ==
    /\ hc_new # <<>>
    /\ hc_new.pc = "new"
    /\ hc_new' = configure_new(hc_new)
    /\ NewFrame

\* configure checks the total
NewTotal ==
    /\ hc_new # <<>>
    /\ hc_new.pc = "total"
    /\ hc_new' = configure_total(hc_new)
    /\ NewFrame

NextNew == NewValidSeeds \/ NewHashcat \/ NewTotal

SpecNew == InitNew /\ [][NextNew]_vars

(***************************************************************************)
(* The whole model: either enumerator, driven as above.                    *)
(***************************************************************************)
Init ==
    \/ InitPerm \/ InitComb \/ InitPass \/ InitDeriv \/ InitSeed \/ InitMode
    \/ InitEnc \/ InitFound \/ InitRun \/ InitArgs
    \/ InitFeed \/ InitProd \/ InitTimer \/ InitShard
    \/ InitPipe \/ InitNew

Next ==
    \/ NextPerm \/ NextComb \/ NextPass \/ NextDeriv \/ NextSeed \/ NextMode
    \/ NextEnc \/ NextFound \/ NextRun \/ NextArgs
    \/ NextFeed \/ NextProd \/ NextTimer \/ NextShard
    \/ NextPipe \/ NextNew

Spec == Init /\ [][Next]_vars

(***************************************************************************)
(* Vocabulary of the properties.                                           *)
(***************************************************************************)
NoDup(seq) == \A i, j \in 1..Len(seq) : i # j => seq[i] # seq[j]

IsPrefix(a, b) == Len(a) <= Len(b) /\ \A i \in 1..Len(a) : a[i] = b[i]

\* a < b in lexicographic order
LexLess(a, b) ==
    \E i \in 1..Min2(Len(a), Len(b)) + 1 :
        /\ \A j \in 1..(i - 1) : a[j] = b[j]
        /\ IF i <= Len(a) /\ i <= Len(b) THEN a[i] < b[i]
           ELSE i > Len(a) /\ i <= Len(b)

RECURSIVE Fact(_)
Fact(n) == IF n = 0 THEN 1 ELSE n * Fact(n - 1)

\* P(n, k) = n! / (n - k)!
NPK(n, k) == Fact(n) \div Fact(n - k)

\* the driver has iterated every shard to its None
ShardsDone == num > 0 /\ shard_cur = Len(shards)

\* shard(num) has just returned: no shard has been touched
ShardsFresh == num > 0 /\ shard_cur = 0 /\ shard_calls = 0

(***************************************************************************)
(* Permutations: C2 .. C6.                                                 *)
(***************************************************************************)
\* C2: for 1 <= num <= len, the tuples the shards of shard(num) return,
\* iterated in order, are at every moment a prefix of the unsharded
\* sequence; once every shard has returned None they are exactly the
\* unsharded sequence, and no tuple has been returned twice.
C2_ShardsConcatenateToUnsharded ==
    num > 0 =>
        /\ IsPrefix(shard_out, perm_out)
        /\ (ShardsDone /\ perm_none >= 1) =>
               (shard_out = perm_out /\ NoDup(shard_out))

C2_Witness ==
    /\ ShardsDone
    /\ perm_none >= 1
    /\ Len(shards) >= 4
    /\ perm.k >= 2
    /\ perm.k < Len(perm.elements)
    /\ \E i \in 1..Len(shards) : shards[i].permutation_index # 0

\* C3 as stated: shard(num) never returns more than num shards.
C3_AtMostNumShards == num > 0 => Len(shards) <= num

\* C3 amended: for 1 <= num <= len, shard(num) returns at least num and at
\* most 2 * num - 1 shards, contiguous ranges of len div num ordinals (the
\* last one possibly shorter) that partition [0, len).
C3_ShardCountAndPartition ==
    num > 0 =>
        /\ num <= Len(shards)
        /\ Len(shards) <= 2 * num - 1
        /\ ShardsFresh =>
               /\ shards[1].index = 0
               /\ shards[Len(shards)].len = perm.len
               /\ \A i \in 1..Len(shards) :
                      /\ shards[i].index < shards[i].len
                      /\ shards[i].len - shards[i].index <= perm.len \div num
                      /\ i < Len(shards) =>
                             /\ shards[i + 1].index = shards[i].len
                             /\ shards[i].len - shards[i].index
                                    = perm.len \div num

C3_Witness == ShardsFresh /\ Len(shards) > num /\ num >= 2

\* C4: with 1 <= k <= n distinct elements, next() returns P(n, k) tuples and
\* then None: never more than P(n, k), exactly P(n, k) once None has come,
\* all pairwise distinct, each of length k, made of elements of the input
\* without repetition; and no assert! fails on the way.
C4_ExactlyNPermuteKTuples ==
    perm.k >= 1 =>
        /\ ~panic
        /\ Len(perm_out) <= NPK(Len(perm.elements), perm.k)
        /\ perm_none >= 1 =>
               Len(perm_out) = NPK(Len(perm.elements), perm.k)
        /\ NoDup(perm_out)
        /\ \A i \in 1..Len(perm_out) :
               /\ Len(perm_out[i]) = perm.k
               /\ NoDup(perm_out[i])
               /\ \A j \in 1..perm.k :
                      \E e \in 1..Len(perm.elements) :
                          perm_out[i][j] = perm.elements[e]

C4_Witness ==
    /\ perm_none >= 2
    /\ perm.k >= 2
    /\ perm.k < Len(perm.elements)
    /\ Len(perm_out) >= 12

C6_KZeroYieldsOneEmptyTuple ==
    perm.k = 0 =>
        \/ perm_out = <<>> /\ perm_none = 0
        \/ perm_out = << <<>> >>

(***************************************************************************)
(* Combinations: C1, C7 .. C10.                                            *)
(***************************************************************************)
\* the values a sequence holds
SetOf(seq) == {seq[i] : i \in 1..Len(seq)}

\* the sequences of seqs one after the other
RECURSIVE Flatten(_)
Flatten(seqs) ==
    IF seqs = <<>> THEN <<>> ELSE Head(seqs) \o Flatten(Tail(seqs))

\* the choice set of position j
Values(j) == SetOf(At(comb.elements, j))

\* no value is offered at two positions
DisjointChoiceSets ==
    \A a, b \in 0..(Len(comb.elements) - 1) :
        a # b => Values(a) \cap Values(b) = {}

\* Combinations::new: no permutable position
PureCartesian == comb.permute_indices = {}

\* the product of the sizes of the choice sets right of position i (1-based)
RECURSIVE Weight(_)
Weight(i) ==
    IF i >= Len(comb.elements) THEN 1
    ELSE Len(comb.elements[i + 1]) * Weight(i + 1)

\* how many permutable positions lie left of offset i
Rank(i) == Cardinality({j \in comb.permute_indices : j < i})

\* the iteration of the unsharded enumerator has reached None
CombDone == comb_none >= 1

\* C1 as stated: the shards of shard(m), iterated to exhaustion, return no
\* tuple twice, within a shard or across shards, and return the set of
\* tuples the enumerator itself returns.
C1_ShardsPartitionTheEnumeration ==
    comb_num > 0 =>
        /\ NoDup(Flatten(comb_shard_out))
        /\ SetOf(Flatten(comb_shard_out)) = SetOf(comb_out)

\* C7: a pure cartesian enumerator over S_0 .. S_{n-1} returns as its t-th
\* tuple (t from 0) the digits of t in the mixed radix |S_0|, .., |S_{n-1}|
\* with the rightmost position least significant; it never returns more
\* than |S_0| * .. * |S_{n-1}| tuples and returns None only after exactly
\* that many.
C7_RightmostFastestProduct ==
    PureCartesian =>
        /\ Len(comb_out) <= Weight(0)
        /\ \A t \in 1..Len(comb_out) :
               comb_out[t] =
                   [i \in 1..Len(comb.elements) |->
                       comb.elements[i][(((t - 1) \div Weight(i))
                                             % Len(comb.elements[i])) + 1]]
        /\ CombDone => Len(comb_out) = Weight(0)

C7_Witness ==
    /\ PureCartesian
    /\ CombDone
    /\ Len(comb.elements) >= 2
    /\ Len(comb.elements[1]) >= 2
    /\ Len(comb.elements[2]) >= 2
    /\ Len(comb_out) = Weight(0)
    /\ comb_out[1][1] = comb_out[2][1]
    /\ comb_out[1][2] # comb_out[2][2]

\* C8 as stated: for an enumerator built with permute, total() is the
\* number of tuples next() returns before None, and no tuple is returned
\* twice.
C8_TotalCountsDistinctTuples ==
    ~PureCartesian =>
        /\ (CombDone /\ report # <<>>) => report.total = Len(comb_out)
        /\ NoDup(comb_out)

\* C9: every tuple returned has length k; a non-permutable offset i holds
\* a value of choice set i; the r-th permutable offset holds a value of the
\* choice set that the r-th entry of the current permutation names, that
\* permutation being k' distinct permutable indices, one for each
\* permutable offset.
C9_OffsetsHoldTheirChoiceSets ==
    \A t \in 1..Len(comb_out) :
        /\ Len(comb_out[t]) = comb.length
        /\ Len(comb_used[t]) = Rank(comb.length)
        /\ SetOf(comb_used[t]) \subseteq comb.permute_indices
        /\ NoDup(comb_used[t])
        /\ \A i \in 0..(comb.length - 1) :
               At(comb_out[t], i) \in
                   Values(IF i \in comb.permute_indices
                          THEN At(comb_used[t], Rank(i))
                          ELSE i)

\* a singleton permutable choice set has moved to another offset, next to
\* a position that is not permutable
C9_Witness ==
    /\ CombDone
    /\ DisjointChoiceSets
    /\ \E a \in 0..(comb.length - 1) : a \notin comb.permute_indices
    /\ \E t \in 1..Len(comb_out) : \E i \in 0..(comb.length - 1) :
           /\ i \in comb.permute_indices
           /\ At(comb_used[t], Rank(i)) # i
           /\ Len(At(comb.elements, At(comb_used[t], Rank(i)))) = 1
           /\ At(comb_out[t], i) \in Values(At(comb_used[t], Rank(i)))
           /\ At(comb_out[t], i) \notin Values(i)

\* C10: begin() is the first tuple next() returns, and end() is the last
\* tuple it returns before None.
C10_BeginAndEndAreFirstAndLast ==
    (report # <<>> /\ comb_out # <<>>) =>
        /\ report.begin = comb_out[1]
        /\ CombDone => report.end = comb_out[Len(comb_out)]

C10_Witness ==
    /\ ~PureCartesian
    /\ CombDone
    /\ comb.length < Len(comb.elements)
    /\ comb.length >= 2
    /\ report.begin = comb_out[1]
    /\ report.end = comb_out[Len(comb_out)]
    /\ report.begin # report.end
    /\ \E i \in 1..comb.length : report.end[i] # comb.elements[i][1]

(***************************************************************************)
(* Passphrase: C13 .. C16.                                                 *)
(***************************************************************************)
\* the run of '?' that starts at the x-th character of arg is this long
RECURSIVE QuestionRun(_, _)
QuestionRun(arg, x) ==
    IF x > Len(arg) \/ arg[x] # "?" THEN 0 ELSE 1 + QuestionRun(arg, x + 1)

\* a '?' is left once every "??" is removed: some maximal run of '?' is odd
IsMaskArg(arg) ==
    \E x \in 1..Len(arg) :
        /\ arg[x] = "?"
        /\ x = 1 \/ arg[x - 1] # "?"
        /\ QuestionRun(arg, x) % 2 = 1

\* the shape of the arguments
Shape(args) ==
    [x \in 1..Len(args) |-> IF IsMaskArg(args[x]) THEN "Mask" ELSE "Dict"]

\* the attack mode of a shape, -1 for a shape that has none
ModeOf(shape) ==
    CASE shape = <<"Mask">> -> 3
      [] shape = <<"Dict">> -> 0
      [] shape = <<"Dict", "Dict">> -> 1
      [] shape = <<"Dict", "Mask">> -> 6
      [] shape = <<"Mask", "Dict">> -> 7
      [] OTHER -> -1

\* C13: from_arg succeeds only on the shapes [Mask], [Dict], [Dict,Dict],
\* [Dict,Mask], [Mask,Dict], an argument being a Mask iff a '?' is left
\* once every "??" is removed; the passphrase then has the attack mode
\* 3, 0, 1, 6, 7 of its shape and its arguments left and right in their
\* order; every other shape is an error.
C13_ShapesMapToAttackModes ==
    pass # <<>> =>
        /\ ModeOf(Shape(pass_args)) = -1 => ~pass.ok
        /\ pass.ok =>
               /\ pass.val.attack_mode = ModeOf(Shape(pass_args))
               /\ pass.val.attack_mode \in {0, 1, 3, 6, 7}
               /\ pass.val.left.kind = Shape(pass_args)[1]
               /\ pass.val.right.some = (Len(pass_args) = 2)
               /\ pass.val.right.some =>
                      pass.val.right.val.kind = Shape(pass_args)[2]

\* a dictionary that holds an escaped '?', followed by a mask
C13_Witness ==
    /\ pass # <<>>
    /\ pass.ok
    /\ pass.val.attack_mode = 6
    /\ contains(pass_args[1], "?")

\* the free charset slots among 1..4, ascending
FreeSlots(charsets) == SetToSeq((1..4) \ DOMAIN charsets)

\* the binary wildcard of `bits` bits in slot `slot`
BinaryWildcard(slot, bits) ==
    [flag |-> flag_of(slot), length |-> 2^bits,
     charset |-> Some(<<ToString(bits), "bit.hcchr">>)]

\* C14: UserCharsets::add_binary_charsets gives the 5-bit, the 6-bit and
\* the entropy-bit charset, in that order, to the lowest free slots of 1..4,
\* as many as there are free slots up to three, and leaves every
\* user-defined slot as it was; Passphrase::add_binary_charsets returns
\* None when fewer than three slots are free.
C14_BinaryCharsetsTakeFreeSlots ==
    /\ (charsets_bin # <<>> /\ charsets_bin.result.ok) =>
           /\ Len(charsets_bin.result.val.wildcards)
                  = Min2(3, Len(FreeSlots(charsets_bin.before)))
           /\ \A x \in 1..Len(charsets_bin.result.val.wildcards) :
                  /\ charsets_bin.result.val.wildcards[x] =
                         BinaryWildcard(
                             FreeSlots(charsets_bin.before)[x],
                             <<5, 6, charsets_bin.entropy_bits>>[x])
                  /\ charsets_bin.result.val.charsets[
                         FreeSlots(charsets_bin.before)[x]]
                         = charsets_bin.result.val.wildcards[x]
           /\ DOMAIN charsets_bin.result.val.charsets =
                  DOMAIN charsets_bin.before
                      \cup {FreeSlots(charsets_bin.before)[x] :
                              x \in 1..Len(charsets_bin.result.val.wildcards)}
           /\ \A n \in DOMAIN charsets_bin.before :
                  charsets_bin.result.val.charsets[n] = charsets_bin.before[n]
    /\ (pass_bin # <<>> /\ Len(FreeSlots(pass.val.charsets)) < 3) =>
           pass_bin.result = Ok(None)

\* slot 2 is user-defined: the binary charsets go to the slots 1, 3 and 4
C14_Witness ==
    /\ charsets_bin # <<>>
    /\ DOMAIN charsets_bin.before = {2}
    /\ charsets_bin.result.ok
    /\ Len(charsets_bin.result.val.wildcards) = 3
    /\ charsets_bin.result.val.wildcards[2].flag = "3"

\* add_binary_charsets has returned Some(passphrase)
Augmented == pass_bin # <<>> /\ pass_bin.result.ok /\ pass_bin.result.val.some

\* the mask the wildcards are put in front of
OriginalMask ==
    IF pass.val.left.kind = "Mask" THEN pass.val.left.mask.arg ELSE <<>>

\* "?c" for the x-th binary charset (1: 5 bits, 2: 6 bits, 3: entropy bits)
BinaryWild(x) == <<"?", flag_of(FreeSlots(pass.val.charsets)[x])>>

\* n times the string
RECURSIVE Repeat(_, _)
Repeat(str, n) == IF n = 0 THEN <<>> ELSE str \o Repeat(str, n - 1)

\* C15 as stated: the mask is prepended with one (5-bit, 6-bit,
\* entropy-bit) triple of wildcards for each of the g guesses.
C15_TripleForEachGuess ==
    Augmented =>
        pass_bin.result.val.val.left.mask.arg =
            Repeat(BinaryWild(1) \o BinaryWild(2) \o BinaryWild(3),
                   pass_bin.guesses) \o OriginalMask

\* C15: the mask is prepended with g - 1 (5-bit, 6-bit) pairs of wildcards
\* followed by one entropy-bit wildcard.
C15_PairsThenEntropyWildcard ==
    Augmented =>
        pass_bin.result.val.val.left.mask.arg =
            Repeat(BinaryWild(1) \o BinaryWild(2), pass_bin.guesses - 1)
                \o BinaryWild(3) \o OriginalMask

C15_Witness ==
    /\ Augmented
    /\ pass_bin.guesses = 3
    /\ OriginalMask # <<>>
    /\ Len(pass_bin.result.val.val.left.mask.arg) = 10 + Len(OriginalMask)

\* C16: with three free slots and the charset files at hand, a lone Dict
\* becomes attack mode 7 with a mask on the left and the Dict on the right,
\* a Mask-led passphrase keeps its attack mode and its right argument, and
\* the total is the original total times 2048^(g-1) * 2^entropy_bits.
C16_LoneDictBecomesMaskDict ==
    (pass_bin # <<>> /\ pass_bin.result.ok
         /\ Len(FreeSlots(pass.val.charsets)) >= 3) =>
        /\ (pass.val.left.kind = "Dict" /\ ~pass.val.right.some) =>
               /\ pass_bin.result.val.some
               /\ pass_bin.result.val.val.attack_mode = 7
               /\ pass_bin.result.val.val.left.kind = "Mask"
               /\ pass_bin.result.val.val.right = Some(pass.val.left)
        /\ pass.val.left.kind = "Mask" =>
               /\ pass_bin.result.val.some
               /\ pass_bin.result.val.val.attack_mode = pass.val.attack_mode
               /\ pass_bin.result.val.val.right = pass.val.right
        /\ pass_bin.result.val.some =>
               Passphrase_total(pass_bin.result.val.val) =
                   Passphrase_total(pass.val)
                       * 2048^(pass_bin.guesses - 1) * 2^pass_bin.entropy_bits

\* the dictionary file alone, two guesses
C16_Witness ==
    /\ Augmented
    /\ pass_args = << <<DICT_PATH>> >>
    /\ pass_bin.guesses = 2
    /\ pass_bin.result.val.val.attack_mode = 7
    /\ Passphrase_total(pass.val) = DictLines
    /\ Passphrase_total(pass_bin.result.val.val) > DictLines

(***************************************************************************)
(* Derivations: C17, C18.                                                  *)
(***************************************************************************)
\* the concrete elements an element of an argument stands for
ExpandElement(e) ==
    IF e[1] # "?" THEN {e}
    ELSE IF e[Len(e)] \in {"h", "'"}
    THEN {Append(to_string(i), e[Len(e)]) :
              i \in 0..digits_value(SubSeq(e, 2, Len(e) - 1), Len(e) - 2)}
    ELSE {to_string(i) : i \in 0..digits_value(Tail(e), Len(e) - 1)}

\* the concrete paths of the first n elements
RECURSIVE ExpandElements(_, _)
ExpandElements(elems, n) ==
    IF n = 0 THEN {<<"m">>}
    ELSE {path \o <<"/">> \o e : path \in ExpandElements(elems, n - 1),
                                 e \in ExpandElement(elems[n])}

\* the concrete paths of "m/..."
ExpandPath(path) ==
    ExpandElements(split(SubSeq(path, 3, Len(path)), 1, "/", <<>>),
                   Len(split(SubSeq(path, 3, Len(path)), 1, "/", <<>>)))

\* the concrete paths of an entry of the argument list, and their number
ExpandEntry(entry) ==
    UNION {ExpandPath(path) : path \in SetOf(split(entry, 1, ",", <<>>))}

RECURSIVE SumSizes(_, _)
SumSizes(paths, n) ==
    IF n = 0 THEN 0
    ELSE SumSizes(paths, n - 1) + Cardinality(ExpandPath(paths[n]))

EntrySize(entry) ==
    SumSizes(split(entry, 1, ",", <<>>), Len(split(entry, 1, ",", <<>>)))

RECURSIVE ExpansionSize(_, _)
ExpansionSize(list, n) ==
    IF n = 0 THEN 0 ELSE ExpansionSize(list, n - 1) + EntrySize(list[n])

Derived == deriv # <<>> /\ deriv.ok

\* C17 as stated: the argument list never has more than MAX_DERIVATIONS
\* entries.
C17_AtMostMaxDerivationsArgs ==
    Derived => Len(deriv.val.args) <= MAX_DERIVATIONS

\* C17: every entry of the argument list stands for at most MAX_DERIVATIONS
\* concrete paths, whatever the number of entries.
C17_EachArgExpandsToAtMostMaxDerivations ==
    Derived =>
        \A x \in 1..Len(deriv.val.args) :
            EntrySize(deriv.val.args[x]) <= MAX_DERIVATIONS

\* 16 entries of 4 paths each
C17_Witness ==
    /\ Derived
    /\ Len(deriv.val.args) > MAX_DERIVATIONS
    /\ \E x \in 1..Len(deriv.val.args) : EntrySize(deriv.val.args[x]) > 1

\* C18: the concrete paths of the entries of the argument list are the
\* derivations, as many of them, and hash_ratio() is their number over the
\* number of entries.
C18_ArgsExpandToTheDerivations ==
    Derived =>
        /\ UNION {ExpandEntry(deriv.val.args[x]) :
                      x \in 1..Len(deriv.val.args)}
               = SetOf(deriv.val.derivations)
        /\ ExpansionSize(deriv.val.args, Len(deriv.val.args))
               = Len(deriv.val.derivations)
        /\ ratio # <<>> =>
               ratio.num * Len(deriv.val.args)
                   = ratio.den * ExpansionSize(deriv.val.args,
                                               Len(deriv.val.args))

\* three paths, the first two joined in one entry and the third in four
\* entries
C18_Witness ==
    /\ Derived
    /\ ratio = [num |-> 22, den |-> 5]
    /\ contains(deriv.val.args[1], ",")
    /\ contains(deriv.val.args[4], "?")
    /\ Len(deriv.val.derivations) = 22

(***************************************************************************)
(* Seed: C12, C19, C20.                                                    *)
(***************************************************************************)
\* the number of words of the seeds that the driven seed enumerates
SeedLength == IF seed_combo.some THEN seed_combo.val ELSE Len(seed_words)

\* a slot holding every word of the list: a '?' of the --seed argument
IsQuestion(w) == Len(w) = NUM_WORDS

\* the driven seed uses one permutation only: every position p takes its
\* words from the p-th word of the argument
OnePermutation == Combinations_permutations(seed_new.val.words) <= 1

\* the column of the argument lines that the claim gives a slot
SlotColumn(w) ==
    IF IsQuestion(w) THEN << <<"?">> >>
    ELSE IF Len(w) > 1 THEN [x \in 1..Len(w) |-> <<"=">> \o to_string(w[x])]
    ELSE <<to_string(w[1])>>

\* the number of argument lines of the first n slots
RECURSIVE ArgLines(_)
ArgLines(n) ==
    IF n = 0 THEN 1
    ELSE ArgLines(n - 1)
             * (IF IsQuestion(seed_words[n]) THEN 1 ELSE Len(seed_words[n]))

\* binary_charsets returned Ok(None)
BinaryNone == seed_bin.result = Ok(None)

\* binary_charsets returned Ok(Some(..))
BinarySome == seed_bin.result.ok /\ seed_bin.result.val.some

\* C12: binary_charsets returns None whenever the seed uses more than one
\* permutation, whenever the last position of the seed is not a '?' slot and
\* whenever the argument lines are more than max_args; when it returns Some
\* the argument lines have one column for each position of the seed: "?"
\* for a '?' slot, the "=index" alternatives of a slot of several words and
\* the bare decimal index of a single word.
C12_NoneUnlessLastSlotIsQuestion ==
    seed_bin # <<>> =>
        /\ ~OnePermutation => BinaryNone
        /\ OnePermutation /\ ~IsQuestion(seed_words[SeedLength]) => BinaryNone
        /\ OnePermutation /\ ArgLines(SeedLength) > seed_bin.max_args
               => BinaryNone
        /\ BinarySome =>
               Combinations_elements(seed_bin.result.val.val.seed.args)
                   = [p \in 1..SeedLength |-> SlotColumn(seed_words[p])]

\* C12 for the seeds whose argument has no word beyond the seed's length
C12_WithoutSpareWords ==
    Len(seed_words) = SeedLength => C12_NoneUnlessLastSlotIsQuestion

C12_Witness ==
    /\ seed_bin # <<>>
    /\ BinarySome
    /\ seed_bin.max_args = 10
    /\ Len(seed_words) = 12
    /\ Len(seed_words[1]) = 2
    /\ IsQuestion(seed_words[11])
    /\ IsQuestion(seed_words[12])

\* a call of next() on the enumerator of st, its tuple appended
WordTuplesRound(st, r) ==
    IF r.ret.some
    THEN [c |-> r.c, acc |-> Append(st.acc, r.ret.val), done |-> FALSE]
    ELSE [st EXCEPT !.done = TRUE]

\* up to n calls of next(), until None
RECURSIVE WordTuplesRounds(_, _)
WordTuplesRounds(st, n) ==
    IF st.done \/ n = 0 THEN st
    ELSE IF n = 1 THEN WordTuplesRound(st, Combinations_next(st.c))
    ELSE WordTuplesRounds(WordTuplesRounds(st, n \div 2), n - (n \div 2))

\* the underlying word enumeration of the driven seed: the tuples that
\* next() returns until None
WordTuples ==
    WordTuplesRounds([c |-> seed_new.val.words, acc |-> <<>>, done |-> FALSE],
                     MaxExact + 1).acc

\* the 11 bits of every word of a tuple, first word first
TupleBits(t) ==
    [k \in 1..(11 * Len(t)) |->
        (t[((k - 1) \div 11) + 1] \div 2^(10 - ((k - 1) % 11))) % 2]

\* BIP-39: a mnemonic of L words carries L / 3 checksum bits
ChecksumBits(t) == Len(t) \div 3

\* the value of the bits b[from..to]
RECURSIVE BitsValue(_, _, _)
BitsValue(b, from, to) ==
    IF to < from THEN 0 ELSE 2 * BitsValue(b, from, to - 1) + b[to]

\* the bytes of the entropy: the bits before the checksum
EntropyBytes(t) ==
    [x \in 1..((11 * Len(t) - ChecksumBits(t)) \div 8) |->
        BitsValue(TupleBits(t), 8 * x - 7, 8 * x)]

\* the BIP-39 checksum predicate: the last bits of the mnemonic are the
\* first bits of the hash of its entropy
PassesChecksum(t) ==
    BitsValue(TupleBits(t), 11 * Len(t) - ChecksumBits(t) + 1, 11 * Len(t))
        = Sha256_update(0, EntropyBytes(t), 1) \div 2^(8 - ChecksumBits(t))

\* the tuples of the underlying enumeration that pass, in order
ValidTuples == SelectSeq(WordTuples, PassesChecksum)

\* next_valid() has returned the first n of the passing tuples, encoded
ReturnedAreFirstValid(valid) ==
    /\ Len(seed_out) <= Len(valid)
    /\ \A x \in 1..Len(seed_out) :
           /\ seed_out[x].tuple = valid[x]
           /\ seed_out[x].encoded
                  = SeedEncoder_encode_words(seed_iter.encoder, valid[x])
    /\ seed_none > 0 => Len(seed_out) = Len(valid)

\* C19: next_valid() returns, in order, the encodings of exactly the tuples
\* of the underlying word enumeration that pass the BIP-39 checksum
\* predicate, and None once the enumeration is exhausted.
C19_NextValidReturnsThePassingTuples ==
    seed_out # <<>> \/ seed_none > 0 => ReturnedAreFirstValid(ValidTuples)

C19_Witness ==
    /\ seed_none = 1
    /\ Len(seed_out) >= 2
    /\ Len(seed_words) = 12
    /\ Len(WordTuples) > Len(seed_out) + 2
    /\ ~seed_iter.encoder.is_pure_gpu
    /\ seed_out[1].encoded # <<>>

\* the checksum-valid candidates of the driven seed
ValidCandidates == {ValidTuples[x] : x \in 1..Len(ValidTuples)}

\* total() / 2^(L / 3 + extra)
TotalOver(extra) ==
    seed_valid.total \div 2^((SeedLength \div 3) + extra)

\* valid_seeds() and the estimate of the larger seeds
HeuristicCount ==
    /\ seed_valid.total >= EXACT_VALID_MAX => seed_valid.valid = TotalOver(0)
    /\ SeedLength \in VALID_LENGTHS /\ seed_valid.total > EXACT_VALID_MAX
           => /\ TotalOver(1) <= seed_valid.valid
              /\ seed_valid.valid <= seed_valid.total

\* C20: valid_seeds() is the exact number of checksum-valid candidates when
\* total() < 100000 and total() / 2^(L/3) otherwise; for L in
\* {12,15,18,21,24} and total > 100000 it lies between total / 2^(L/3+1)
\* and total.
C20_ExactCountOrHeuristic ==
    seed_valid # <<>> =>
        /\ seed_valid.total < EXACT_VALID_MAX
               => seed_valid.valid = Cardinality(ValidCandidates)
        /\ HeuristicCount

\* C20 with every tuple that the enumeration returns counted, as often as it
\* is returned
C20_CountsEveryReturnedTuple ==
    seed_valid # <<>> =>
        /\ seed_valid.total < EXACT_VALID_MAX
               => seed_valid.valid = Len(ValidTuples)
        /\ HeuristicCount

(***************************************************************************)
(* Hashcat: C11.                                                           *)
(***************************************************************************)
\* what the binary-charset augmentation returns for the planned run
Augmentation(hashcat) ==
    Seed_binary_charsets(hashcat.seed, hashcat.max_hashes, hashcat.passphrase)

\* the augmentation returned Some and its passphrases are more than
\* min_passphrases
AugmentedEnough(hashcat, aug) ==
    /\ aug.ok
    /\ aug.val.some
    /\ Passphrase_total(aug.val.val.passphrase) > hashcat.min_passphrases

\* the number of derivation arguments of the planned run
DerivationArgs(hashcat) == Len(hashcat.address.derivations.args)

\* the passphrase total, 0 when there is no passphrase
PassphraseTotal(hashcat) ==
    IF hashcat.passphrase.some THEN Passphrase_total(hashcat.passphrase.val)
    ELSE 0

\* the runner that the claim selects
SelectedRunner(hashcat, aug) ==
    IF AugmentedEnough(hashcat, aug) THEN "BinaryCharsets"
    ELSE IF Seed_valid_seeds(hashcat.seed) * DerivationArgs(hashcat)
                > hashcat.max_hashes
    THEN "StdinMaxHashes"
    ELSE IF PassphraseTotal(hashcat) < hashcat.min_passphrases
    THEN "StdinMinPassphrases"
    ELSE "PureGpu"

\* a stdin mode reports no passphrases and the argument lines of the seed for
\* each derivation argument
StdinReport(hashcat, mode) ==
    mode.runner.kind \in {"StdinMaxHashes", "StdinMinPassphrases"}
        => /\ mode.passphrases = 0
           /\ mode.hashes = Seed_total_args(hashcat.seed)
                                * DerivationArgs(hashcat)

\* C11: get_mode selects BinaryCharsets exactly when the augmentation
\* returns Some with more than min_passphrases passphrases; otherwise
\* StdinMaxHashes if valid_seeds * derivation args > max_hashes, else
\* StdinMinPassphrases if the passphrase total is below min_passphrases, else
\* PureGpu; the stdin modes report passphrases = 0 and
\* hashes = seed.total_args() * derivation args.
C11_GetModeSelectsTheRunner ==
    hc_mode # <<>> =>
        /\ hc_mode.result.ok
        /\ hc_mode.result.val.runner.kind
               = SelectedRunner(hc_mode.hashcat, Augmentation(hc_mode.hashcat))
        /\ StdinReport(hc_mode.hashcat, hc_mode.result.val)

C11_Witness ==
    /\ hc_mode # <<>>
    /\ hc_mode.result.ok
    /\ hc_mode.result.val.runner.kind = "StdinMinPassphrases"
    /\ Augmentation(hc_mode.hashcat).val.some
    /\ hc_mode.hashcat.min_passphrases = DEFAULT_MIN_PASSPHRASES
    /\ hc_mode.hashcat.max_hashes = DEFAULT_MAX_HASHES
    /\ hc_mode.result.val.hashes = 64

(***************************************************************************)
(* Encoder: C21                                                            *)
(***************************************************************************)
\* the positions to guess of the seed encoded, 1-based
Varying(seed) ==
    {x \in 1..Combinations_len(seed.words) :
        ~Combinations_fixed_positions(seed.words)[x].some}

\* the bytes the stdin encoding is to emit
EmittedBytes(seed) ==
    2 * Cardinality(Varying(seed) \ {Combinations_len(seed.words)})
        + (IF Combinations_len(seed.words) \in Varying(seed) THEN 1 ELSE 0)

\* the sums of encode_words in unbounded integers, from position x on
RECURSIVE ByteSums(_, _, _)
ByteSums(seed, t, x) ==
    IF x > Len(t) THEN <<>>
    ELSE IF x \notin Varying(seed) THEN ByteSums(seed, t, x + 1)
    ELSE IF x < Len(t)
    THEN <<(t[x] \div 64) + 48 + 5, (t[x] % 64) + 48 + 6>>
             \o ByteSums(seed, t, x + 1)
    ELSE <<(t[x] \div 2^ChecksumBits(t)) + 48 + (11 - ChecksumBits(t))>>

\* the decoding of the kernel, the last word without its checksum: a word
\* to guess is read back from its bytes, inverting the offsets
RECURSIVE DecodeFrom(_, _, _, _)
DecodeFrom(seed, t, bytes, x) ==
    IF x > Len(t) THEN <<>>
    ELSE IF x \notin Varying(seed)
    THEN <<t[x]>> \o DecodeFrom(seed, t, bytes, x + 1)
    ELSE IF x < Len(t)
    THEN IF Len(bytes) < 2 THEN <<-1>>
         ELSE <<(bytes[1] - 48 - 5) * 64 + (bytes[2] - 48 - 6)>>
                  \o DecodeFrom(seed, t, SubSeq(bytes, 3, Len(bytes)), x + 1)
    ELSE IF Len(bytes) # 1 THEN <<-1>>
    ELSE <<(bytes[1] - 48 - (11 - ChecksumBits(t))) * 2^ChecksumBits(t)>>

\* the checksum bits recomputed of the entropy of t0
RecomputedChecksum(t0) ==
    Sha256_update(0, EntropyBytes(t0), 1) \div 2^(8 - ChecksumBits(t0))

\* the decoding with the checksum bits of a guessed last word recomputed
WithChecksum(seed, t0) ==
    IF Len(t0) \in Varying(seed) /\ t0[Len(t0)] >= 0
    THEN [t0 EXCEPT ![Len(t0)] = @ + RecomputedChecksum(t0)]
    ELSE t0

Decoded(seed, t, bytes) == WithChecksum(seed, DecodeFrom(seed, t, bytes, 1))

\* a stdin encoding of a seed of a valid length has been made
StdinEncoded ==
    /\ enc_out # <<>>
    /\ ~enc_out.seed.encoder.is_pure_gpu
    /\ Len(enc_out.tuple) \in VALID_LENGTHS

\* C21: the stdin encoding emits two bytes for each varying non-terminal
\* position, one byte for a varying terminal position and nothing for the
\* fixed ones; no byte sum exceeds 8 bits; and decoding the bytes of a
\* candidate that passes the checksum gives back its word indices.
C21_StdinEncodingDecodes ==
    StdinEncoded =>
        /\ enc_out.encoded.some
        /\ Len(enc_out.encoded.val) = EmittedBytes(enc_out.seed)
        /\ enc_out.encoded.val = ByteSums(enc_out.seed, enc_out.tuple, 1)
        /\ \A x \in 1..Len(enc_out.encoded.val) : enc_out.encoded.val[x] < 256
        /\ PassesChecksum(enc_out.tuple) =>
               Decoded(enc_out.seed, enc_out.tuple, enc_out.encoded.val)
                   = enc_out.tuple

\* a passing candidate of 24 words, the first and the last to guess, the
\* last word of the greatest entropy
C21_Witness ==
    /\ StdinEncoded
    /\ Len(enc_out.tuple) = 24
    /\ Varying(enc_out.seed) = {1, 24}
    /\ enc_out.tuple[1] = 1847
    /\ enc_out.tuple[24] >= 2048 - 256
    /\ PassesChecksum(enc_out.tuple)
    /\ Len(enc_out.encoded.val) = 3

(***************************************************************************)
(* Found: C22, C23                                                         *)
(***************************************************************************)
\* the positions of the commas of a string, ascending
Commas(str) == SetToSeq({i \in 1..Len(str) : str[i] = ","})

\* the number of comma-separated fields of a string
FieldCount(str) == Len(Commas(str)) + 1

\* the n-th comma-separated field of a string, n in 1..FieldCount(str)
FieldOf(str, n) ==
    SubSeq(str,
           IF n = 1 THEN 1 ELSE Commas(str)[n - 1] + 1,
           IF n = FieldCount(str) THEN Len(str) ELSE Commas(str)[n] - 1)

\* how many of the positions 1..x of the seed are varying
VaryingUpTo(seed, x) == Cardinality({y \in Varying(seed) : y <= x})

\* the full seed: each fixed position from fixed_positions(), each varying
\* position from the next field of the payload
RebuiltWords(seed, payload) ==
    [x \in 1..Combinations_len(seed.words) |->
        IF x \in Varying(seed) THEN FieldOf(payload, VaryingUpTo(seed, x))
        ELSE BIP39_WORDS(Combinations_fixed_positions(seed.words)[x].val)]

\* the field after the last varying word, or the empty string
PassphraseField(seed, payload) ==
    IF FieldCount(payload) > Cardinality(Varying(seed))
    THEN FieldOf(payload, Cardinality(Varying(seed)) + 1)
    ELSE <<>>

\* what found is to return on a payload
FoundOf(seed, payload, result) ==
    IF FieldCount(payload) < Cardinality(Varying(seed)) THEN ~result.ok
    ELSE /\ result.ok
         /\ result.val.seed = Some(join(RebuiltWords(seed, payload), ","))
         /\ result.val.passphrase = Some(PassphraseField(seed, payload))
         /\ result.val.pure_gpu = seed.encoder.is_pure_gpu

\* C22: found(Some(payload)) rebuilds the seed of the fixed positions and
\* of the fields of the payload, in order, and reports the field after the
\* last varying word (or the empty string) as the passphrase; too few
\* fields are an error; found(None) returns the exhausted result.
C22_FoundRebuildsTheSeed ==
    found_out # <<>> =>
        IF found_arg.some
        THEN FoundOf(found_out.seed, found_arg.val, found_out.result)
        ELSE /\ found_out.result.ok
             /\ found_out.result.val
                    = Finished_exhausted(found_out.seed.encoder.is_pure_gpu)

\* "jazz,?,?,jazz" found of "able,,pw": jazz,able,,jazz, the passphrase pw
C22_Witness ==
    /\ found_out # <<>>
    /\ Len(enc_words) = 4
    /\ Varying(found_out.seed) = {2, 3}
    /\ found_arg = Some(<<"a", "b", "l", "e", ",", ",", "p", "w">>)
    /\ found_out.result.ok
    /\ found_out.result.val.seed
           = Some(<<"j", "a", "z", "z", ",", "a", "b", "l", "e", ",", ",",
                    "j", "a", "z", "z">>)
    /\ found_out.result.val.passphrase = Some(<<"p", "w">>)

\* run() has returned Ok((timer, finished))
RunFinished ==
    /\ hc_run # <<>>
    /\ hc_run.pc = "returned"
    /\ hc_run.ret.ok

\* a line with the address of the run has been read
MatchRead ==
    \E x \in 1..Len(hc_run.seen) :
        contains_str(hc_run.seen[x], hc_run.address \o <<":">>)

\* the output of hashcat has ended and no line of it held the address
ExhaustedWithoutMatch == hc_run.eof /\ ~MatchRead

\* C23: in the Finished that a run returns, seed is None exactly when the
\* search exhausted without a match, and exactly when passphrase is None.
C23_SeedNoneIffExhausted ==
    RunFinished =>
        /\ ~hc_run.ret.val.seed.some <=> ExhaustedWithoutMatch
        /\ ~hc_run.ret.val.seed.some <=> ~hc_run.ret.val.passphrase.some

\* a run that read two lines without the address, and then the end
C23_Witness ==
    /\ RunFinished
    /\ Len(hc_run.seen) = 2
    /\ ExhaustedWithoutMatch
    /\ hc_run.ret.val = Finished_exhausted(FALSE)

(***************************************************************************)
(* Arguments: C24, C25                                                     *)
(***************************************************************************)
\* the words of the argument as they are typed
TypedWords == from_args_split(args_arg)

\* the indices of the words typed with a '^' in front
AnchoredPositions ==
    {x - 1 : x \in {y \in 1..Len(TypedWords) :
                        TypedWords[y] # <<>> /\ TypedWords[y][1] = "^"}}

\* the positions of the k-word seed that no anchored word takes
UnanchoredCount == args_combo.val - Cardinality(AnchoredPositions)

\* from_args was called with a combinations count
ComboCalled == args_ret # <<>> /\ args_combo.some

\* the argument is one of those that C24 wants refused
StatedError ==
    \/ args_combo.val \notin {12, 15, 18, 21, 24}
    \/ Len(TypedWords) < args_combo.val
    \/ \E i \in AnchoredPositions : i >= args_combo.val
    \/ UnanchoredCount >= 21

\* C24: Seed::from_args with a combinations count k returns an error, and
\* builds no enumerator, when k is not one of 12, 15, 18, 21, 24, when fewer
\* than k words are supplied, when an anchored word sits at an index >= k or
\* when the unanchored count is 21 or more; it accepts 20 unanchored words.
\* The words typed are all words of the list.
C24_ErrorsAsStated ==
    ComboCalled =>
        /\ ~args_ret.panics
        /\ StatedError => ~args_ret.ret.ok
        /\ ~StatedError => args_ret.ret.ok

\* the call that does not return: thirteen anchored words for twelve places
C24_Panicked ==
    /\ ComboCalled
    /\ args_ret.panics
    /\ args_combo.val = 12
    /\ Cardinality(AnchoredPositions) = 13

\* a Vec is in ascending order with no index twice
Ascending(element) ==
    \A i \in 1..(Len(element) - 1) : element[i] < element[i + 1]

\* C25: every PositionSet that Seed::from_args produces holds no word index
\* twice and is in ascending order of word index, for every word typed,
\* those of several '|' alternatives included.
C25_AscendingWithoutDuplicate ==
    (args_ret # <<>> /\ ~args_ret.panics /\ args_ret.ret.ok) =>
        \A x \in 1..Len(args_ret.ret.val.elements) :
            Ascending(args_ret.ret.val.elements[x])

(***************************************************************************)
(* Feeder: C26                                                             *)
(***************************************************************************)
\* the stdin_sender has flushed, with its stdin never closed, in a run with
\* passphrases
FedWithPassphrases ==
    /\ feed # <<>>
    /\ feed.pc = "done"
    /\ feed.stdin.open
    /\ feed.stdin.passphrase_args

\* the lines that hashcat has read of its stdin, each one ended by "\n"
EngineLines ==
    SubSeq(split_str(feed.stdin.written, <<"\n">>), 1,
           Len(split_str(feed.stdin.written, <<"\n">>)) - 1)

\* how many times hashcat has read the line
TimesRead(line) ==
    Cardinality({x \in 1..Len(EngineLines) : EngineLines[x] = line})

\* C26: in a stdin-mode run with passphrases the feeder sends to hashcat,
\* for every seed candidate received, that seed concatenated with every
\* passphrase of the passphrase space exactly once, whether the passphrases
\* all fit in the replay buffer or exceed its capacity.
C26_FullCartesianProduct ==
    FedWithPassphrases =>
        \A s \in 1..Len(feed.received) : \A p \in 1..Len(feed.lines) :
            TimesRead(feed.received[s] \o feed.lines[p]) = 1

\* the first seed received goes without the passphrase that follows the
\* STDIN_PASSPHRASE_MEM kept in the buffer
C26_FirstSeedMissesOne ==
    /\ FedWithPassphrases
    /\ Len(feed.received) = 2
    /\ Len(feed.lines) > STDIN_PASSPHRASE_MEM
    /\ TimesRead(feed.received[1] \o feed.lines[STDIN_PASSPHRASE_MEM + 1]) = 0
    /\ TimesRead(feed.received[2] \o feed.lines[STDIN_PASSPHRASE_MEM + 1]) = 1

(***************************************************************************)
(* Producers: C27                                                          *)
(***************************************************************************)
\* the receiving end of the channel of the candidates has been dropped
ConsumerDropped == prod # <<>> /\ ~prod.receiver

\* C27: when the consumer end of a candidate channel is dropped, every
\* producer task observes the closure on its next send and terminates
\* normally, without an error or panic; this holds for the seed-shard
\* producers and for the arg-line producer.
C27_ProducersEndNormally ==
    ConsumerDropped =>
        \A i \in 1..Len(prod.senders) :
            prod.senders[i].state \in {"running", "finished"}

\* the task of spawn_arg_sender has panicked at its send
C27_ArgSenderPanicked ==
    /\ ConsumerDropped
    /\ prod.senders[1].kind = "arg"
    /\ prod.senders[1].state = "panicked"
    /\ prod.senders[1].seed # <<>>

(***************************************************************************)
(* Run: C28, C29, C30                                                      *)
(***************************************************************************)
\* the run has returned a seed found
Matched == RunFinished /\ hc_run.ret.val.seed.some

\* the run has returned with nothing found
Exhausted == RunFinished /\ ~hc_run.ret.val.seed.some

\* what holds of a run at every moment: hashcat runs on a hash file that is
\* finished, stdin is fed to a hashcat that runs, and the run returns as
\* what it has read tells
RunInOrder ==
    hc_run # <<>> =>
        /\ hc_run.child => hc_run.hashfile = "finished"
        /\ hc_run.stdin => hc_run.child
        /\ hc_run.seen # <<>> => hc_run.child
        /\ Matched => MatchRead
        /\ Exhausted => ExhaustedWithoutMatch

\* what holds of every step of a run: hashcat is spawned on a hash file
\* already finished and a planned run, lines are read of a hashcat already
\* spawned, and the run returns Ok after its reading has ended
RunStepInOrder ==
    hc_run # <<>> =>
        /\ (hc_run'.child /\ ~hc_run.child) =>
               hc_run.hashfile = "finished" /\ hc_run.mode.some
        /\ (hc_run'.hashfile # hc_run.hashfile) => hc_run.mode.some
        /\ (hc_run'.stdin /\ ~hc_run.stdin) => hc_run'.child
        /\ (hc_run'.seen # hc_run.seen \/ (hc_run'.eof /\ ~hc_run.eof)) =>
               hc_run.child
        /\ (hc_run'.pc = "returned" /\ hc_run'.ret.ok
                /\ hc_run.pc # "returned") =>
               hc_run.pc = "read"

\* C28: every run follows Planning -> HashWrite -> Spawn ->
\* (Streaming|Waiting) -> Matched|Exhausted -> Done: the hash-list file is
\* completely written and finished before hashcat is spawned, stdin
\* streaming starts only after the spawn, and the run returns Matched only
\* after a match line was read and Exhausted only after the stdout of
\* hashcat reached its end with no match line.
C28_PhasesInOrder == []RunInOrder /\ [][RunStepInOrder]_vars

\* a run in a stdin mode that has returned the seed matched
C28_Witness ==
    /\ hc_run # <<>>
    /\ Matched
    /\ hc_run.stdin
    /\ hc_run.child
    /\ hc_run.hashfile = "finished"
    /\ MatchRead


\* the characters of str are decimal digits, one at least
IsNumber(str) ==
    /\ str # <<>>
    /\ \A x \in 1..Len(str) :
           str[x] \in {"0", "1", "2", "3", "4", "5", "6", "7", "8", "9"}

\* what the line holds from its x-th character up to pat, or to its end
UpTo(line, x, pat) == split_str(SubSeq(line, x, Len(line)), pat)[1]

\* a Time.Started line with no number of seconds between " (" and " sec",
\* or a Progress line with no number in front of a "/"
MalformedStatus(line) ==
    \/ /\ starts_with(line, TIME_STARTED)
       /\ \/ ~contains_str(line, <<" ", "(">>)
          \/ ~IsNumber(UpTo(line, first_match(line, <<" ", "(">>) + 2,
                            <<" ", "s", "e", "c">>))
    \/ /\ starts_with(line, PROGRESS)
       /\ ~IsNumber(UpTo(line, Len(PROGRESS) + 1, <<"/">>))

\* the step reads a line of the output of hashcat
ReadsLine ==
    /\ hc_run # <<>>
    /\ Len(hc_run'.seen) = Len(hc_run.seen) + 1

\* C29: a malformed 'Time.Started.....: ' or 'Progress.........: ' status
\* line on the stdout of hashcat is ignored: the output watcher keeps
\* reading the lines that follow, the progress counter is unchanged, and the
\* run still ends in Matched or Exhausted.
C29_MalformedStatusIgnored ==
    [][(ReadsLine /\ MalformedStatus(hc_run'.seen[Len(hc_run'.seen)])) =>
           /\ hc_run'.pc # "panicked"
           /\ hc_run'.timer = hc_run.timer]_vars

\* the run has panicked at a malformed status line
C29_PanickedAtStatus ==
    /\ hc_run # <<>>
    /\ hc_run.pc = "panicked"
    /\ hc_run.seen # <<>>
    /\ MalformedStatus(hc_run.seen[Len(hc_run.seen)])

\* C30: the current directory is switched to the directory of the hashcat
\* executable at the start of run and is restored to the directory it had
\* before on completion of run, on the success path and on every error
\* path.
C30_DirectoryRestored ==
    hc_run # <<>> =>
        /\ hc_run.pc \notin {"new", "returned"} => hc_run.cwd = HASHCAT_DIR
        /\ hc_run.pc = "returned" => hc_run.cwd = SEEDCAT_DIR

\* the run has returned an error and left the directory of hashcat current
C30_LeftInHashcatDir ==
    /\ hc_run # <<>>
    /\ hc_run.pc = "returned"
    /\ ~hc_run.ret.ok
    /\ hc_run.cwd = HASHCAT_DIR

(***************************************************************************)
(* Timer: C31                                                              *)
(***************************************************************************)
\* the task of the Timer is in its loop
TimerLoops == timer_task # <<>> /\ timer_task.pc = "loop"

\* the next turn of the loop is the last one of the task
TimerStops == start_at_loop(timer_task).pc # "loop"

\* the counter times the multiplier has reached the total
TotalReached == Timer_count(timer_task) >= timer_task.total

\* the sum of the amounts given to add(), times the multiplier
AddedTimesMultiplier == timer_task.added * timer_task.multiplier

\* C31: the task of a started Timer ends at its next turn once end() has
\* been called, and also once the counter times the multiplier has reached
\* the total; count() is then the sum of the amounts given to add() times
\* the multiplier.
C31_TimerEndsWithTheCount ==
    /\ TimerLoops /\ timer_task.end = 1 => TimerStops
    /\ TimerLoops /\ TotalReached => TimerStops
    /\ timer_task # <<>> /\ timer_task.pc = "done" =>
           Timer_count(timer_task) = AddedTimesMultiplier

\* the total is reached with a count of u64::MAX before the first turn of
\* the loop, and the task goes on sleeping
C31_LoopsAtTheLimit ==
    /\ TimerLoops
    /\ TotalReached
    /\ timer_task.end = 0
    /\ start_at_loop(timer_task) = timer_task

(***************************************************************************)
(* Shards of a Combinations: C32                                           *)
(***************************************************************************)
\* shard x holds one value at every position that is not permutable
SplitEverywhere(x) ==
    \A i \in 0..(Len(comb.elements) - 1) :
        i \notin comb.permute_indices =>
            Len(At(comb_shards[x].elements, i)) = 1

\* C32: shard(min) returns at least min shards unless every position that
\* is not permutable has been split into its single values, and every
\* shard returned, iterated with next(), returns at least one tuple.
C32_EnoughShardsNoneEmpty ==
    comb_num > 0 =>
        /\ \/ Len(comb_shards) >= comb_num
           \/ \A x \in 1..Len(comb_shards) : SplitEverywhere(x)
        /\ Len(comb_shards) >= 1
        /\ \A x \in 1..Len(comb_shards) : comb_shard_out[x] # <<>>

\* more shards are asked than there are tuples: every position is split,
\* the permutations are sharded too, and each shard returns its tuple
C32_Witness ==
    /\ comb_num > Len(comb_shards)
    /\ Len(comb_shards) >= 3
    /\ comb.permute_indices # {}
    /\ \E i \in 0..(Len(comb.elements) - 1) :
           i \notin comb.permute_indices /\ Len(At(comb.elements, i)) >= 2
    /\ \A x \in 1..Len(comb_shards) :
           SplitEverywhere(x) /\ Len(comb_shard_out[x]) >= 1

(***************************************************************************)
(* The loop of Permutations::shard: C33                                    *)
(***************************************************************************)
\* a turn of the while loop that is followed by another one
ShardTurn ==
    /\ shard_run # <<>>
    /\ shard_run.pc = "while"
    /\ shard_run'.pc = "while"

\* C33: shard(num) terminates for every num >= 1, num above the number of
\* permutations included: every turn of its loop moves index forward, to
\* the len that ends the loop.
C33_ShardLoopAdvances ==
    [][ShardTurn => shard_run'.index > shard_run.index]_vars

\* num is above the number of permutations: shard_size is 0, index stays
\* at 0 and the loop has pushed more shards than there are permutations
C33_MoreShardsThanPermutations ==
    /\ shard_run # <<>>
    /\ shard_run.num > shard_run.self.len
    /\ shard_run.shard_size = 0
    /\ shard_run.index = 0
    /\ Len(shard_run.shards) > shard_run.self.len

(***************************************************************************)
(* The assertions of an iteration: C34                                     *)
(***************************************************************************)
\* the Permutations being iterated: the unsharded one and the current shard
Iterated ==
    {perm} \cup (IF num > 0 /\ shard_cur < Len(shards)
                 THEN {At(shards, shard_cur)} ELSE {})

\* self as next_combo finds it if the next call of next() reaches it: at
\* the first call, or when next_perm moves on to the next combination
ComboCalls(p) ==
    IF p.indices = <<>> THEN {p}
    ELSE IF p.index + 1 < p.len /\ p.permutation_index = p.k_permutations - 1
    THEN {[p EXCEPT !.combination_index = @ + 1, !.permutation_index = 0]}
    ELSE {}

\* every index that indexed_combination returns is an index of elements
next_combo_in_bounds(p) ==
    \A x \in 1..p.k :
        indexed_combination(p.combination_index, Len(p.elements), p.k)[x]
            \in 0..(Len(p.elements) - 1)

\* C34: while a Permutations is iterated, unsharded or a shard of shard(),
\* the assert! lines of indexed_combination and of indexed_permutation
\* hold at every call, and the indices that next_combo reads elements at
\* are within bounds.
C34_AssertionsHoldIndicesInBounds ==
    /\ ~panic
    /\ \A p \in Iterated : \A q \in ComboCalls(p) :
           /\ q.k <= Len(q.elements)
           /\ next_combo_asserts(q)
           /\ next_combo_in_bounds(q)

\* the shards of a shard(num) do not all start at a first arrangement, and
\* the one being iterated is about to move on to the last combination
C34_Witness ==
    /\ num > 1
    /\ shard_cur < Len(shards)
    /\ At(shards, shard_cur).indices # <<>>
    /\ At(shards, shard_cur).k >= 2
    /\ At(shards, shard_cur).k < Len(At(shards, shard_cur).elements)
    /\ \E q \in ComboCalls(At(shards, shard_cur)) :
           /\ q.combination_index
                  = n_choose_k(Len(q.elements), q.k) - 1
           /\ next_combo_asserts(q)
    /\ \E x \in 1..Len(shards) : shards[x].permutation_index # 0

(***************************************************************************)
(* The tasks of a run: C35, C36                                            *)
(***************************************************************************)
\* the multiset of the entries of a list
BagOf(list) ==
    [v \in SetOf(list) |->
        Cardinality({x \in 1..Len(list) : list[x] = v})]

\* the candidates of a list of lists, one list after the other
RECURSIVE Joined(_)
Joined(lists) ==
    IF lists = <<>> THEN <<>> ELSE Head(lists) \o Joined(Tail(lists))

\* the records of a list of seeds as write_hashes writes them
RECURSIVE RecordsOf(_, _)
RecordsOf(list, count) ==
    IF list = <<>> THEN <<>>
    ELSE hash_records(Head(list), count) \o RecordsOf(Tail(list), count)

\* what the tasks of a channel have yet to send
Unsent(c) == Joined([i \in 1..Len(c.senders) |-> c.senders[i].seed])

PureGpuRun == pipe # <<>> /\ pipe.runner = "PureGpu"

\* write_hashes has returned Ok
HashesWritten == pipe.pc \in {"written", "spawned", "feeding", "fed"}

\* while write_hashes holds the Receiver of a PureGpu run, every seed that
\* a task was spawned on is unsent, in the channel or received, once
SeedsConserved ==
    pipe.seeds.receiver =>
        BagOf(Unsent(pipe.seeds) \o pipe.seeds.channel
                  \o pipe.seeds.received)
            = BagOf(Joined(pipe.shards))

\* what C35 says of every state of a PureGpu run
WriterHoldsEverySeed ==
    PureGpuRun =>
        /\ Len(pipe.seeds.channel) <= CHANNEL_SIZE
        /\ SeedsConserved
        /\ pipe.result # Err =>
               pipe.records
                   = RecordsOf(pipe.seeds.received, pipe.derivations)
        /\ HashesWritten =>
               /\ closed(pipe.seeds)
               /\ Unsent(pipe.seeds) = <<>>
               /\ BagOf(pipe.seeds.received) = BagOf(Joined(pipe.shards))

\* write_hashes does not go on for good
WriterReturns ==
    (PureGpuRun /\ pipe.pc = "writing") ~> (pipe.pc # "writing")

\* C35: in a PureGpu run the channel of the seed senders never holds more
\* than its capacity, write_hashes receives every seed that every shard
\* task returns exactly once, as a multiset, writes one record for each
\* received seed and derivation argument unless a write fails, and returns
\* once every task has finished, which every run comes to.
C35_PureGpuWriter == []WriterHoldsEverySeed /\ WriterReturns

\* two shard tasks have sent more seeds than the channel holds, those of
\* the second task first, and write_hashes has written them and returned
C35_Witness ==
    /\ PureGpuRun
    /\ HashesWritten
    /\ Len(pipe.shards) = 2
    /\ Len(pipe.shards[1]) + Len(pipe.shards[2]) > CHANNEL_SIZE
    /\ pipe.seeds.received[1][1] = 2
    /\ pipe.seeds.received[2][1] = 1
    /\ pipe.derivations = MaxDerivationArgs
    /\ Len(pipe.records) = MaxDerivationArgs * Len(Joined(pipe.shards))

StdinRun == pipe # <<>> /\ pipe.runner = "Stdin"

\* run() has returned an error or panicked, or the stdin_sender has ended
PipeEnded == pipe.pc \in {"returned", "panicked", "fed"}

\* no task is left: the run has ended and every sender too
PipeOver ==
    /\ PipeEnded
    /\ pipe.seeds = <<>> \/ closed(pipe.seeds)
    /\ pipe.args = <<>> \/ closed(pipe.args)

\* what C36 says of every state of a run in a stdin mode
StdinRunGoesOn ==
    StdinRun =>
        /\ PipeOver \/ ENABLED NextPipe
        /\ pipe.pc = "writing" =>
               pipe.seeds.received = <<>> /\ pipe.args.receiver
        /\ pipe.result # Err =>
               pipe.records = RecordsOf(pipe.args.received, pipe.derivations)
        /\ HashesWritten =>
               BagOf(pipe.args.received) = BagOf(Joined(pipe.lines))
        /\ pipe.pc = "fed" =>
               /\ closed(pipe.seeds)
               /\ Unsent(pipe.seeds) = <<>>
               /\ pipe.fed = pipe.seeds.received
               /\ BagOf(pipe.fed) = BagOf(Joined(pipe.shards))

\* write_hashes returns, and the run and its tasks come to their end
StdinRunEnds ==
    /\ (StdinRun /\ pipe.pc = "writing") ~> (pipe.pc # "writing")
    /\ StdinRun ~> PipeOver

\* C36: a run in a stdin mode never deadlocks.  While the hashes are
\* written the seed senders, spawned before, send until their channel is
\* full and nothing is received from it; write_hashes is fed by the
\* channel of the arg sender and always returns; unless it returns an error
\* or hashcat cannot be spawned the stdin_sender then receives every seed
\* of every shard task and ends when all of them have finished.
C36_StdinRunNeverDeadlocks == []StdinRunGoesOn /\ StdinRunEnds

\* the shard tasks are held back by their full channel while write_hashes
\* still has a line to receive
C36_Witness ==
    /\ StdinRun
    /\ pipe.pc = "writing"
    /\ Len(pipe.seeds.channel) = CHANNEL_SIZE
    /\ \E i \in 1..Len(pipe.seeds.senders) :
           /\ pipe.seeds.senders[i].state = "running"
           /\ pipe.seeds.senders[i].seed # <<>>
    /\ pipe.args.channel # <<>>
    /\ pipe.records # <<>>


(***************************************************************************)
(* C37.  What the feeder writes to the stdin of hashcat.                   *)
(***************************************************************************)
\* every pass given to stdin_send, each followed by one line feed, in the
\* order of the calls
RECURSIVE Terminated(_)
Terminated(passed) ==
    IF passed = <<>> THEN <<>>
    ELSE Head(passed) \o <<"\n">> \o Terminated(Tail(passed))

\* stdin_sender has returned, its stdin flushed
FeedDone == feed # <<>> /\ feed.pc = "done"

\* C37 as stated: once the feeder has flushed, hashcat has read exactly the
\* candidates passed to stdin_send, each with its line feed, in send order
C37_EveryCandidateWritten ==
    FeedDone => feed.stdin.written = Terminated(feed.stdin.passed)

\* hashcat has closed its stdin (it found a match) while candidates were
\* buffered or yet to be sent: the feeder has flushed and they are lost
C37_DroppedAfterClose ==
    /\ FeedDone
    /\ ~feed.stdin.open
    /\ feed.stdin.written # Terminated(feed.stdin.passed)
    /\ IsPrefix(feed.stdin.written, Terminated(feed.stdin.passed))

\* C37, amended: as long as hashcat keeps its stdin open, the bytes written
\* followed by the bytes still buffered are the candidates passed to
\* stdin_send, each with its line feed, in send order, the buffer holding at
\* most STDIN_BUFFER_BYTES bytes between two calls, and after the flush the
\* bytes written are all of them; once hashcat has closed its stdin the
\* bytes written are a prefix of them and stay what they were
C37_WrittenWhileOpen ==
    feed # <<>> =>
        /\ feed.stdin.open /\ feed.pc # "done" =>
               /\ feed.stdin.written \o feed.stdin.stdin_buffer
                      = Terminated(feed.stdin.passed)
               /\ Len(feed.stdin.stdin_buffer) <= STDIN_BUFFER_BYTES
        /\ feed.stdin.open /\ feed.pc = "done" =>
               feed.stdin.written = Terminated(feed.stdin.passed)
        /\ IsPrefix(feed.stdin.written, Terminated(feed.stdin.passed))

\* the feeder has flushed to an open stdin after a chunk of more than
\* STDIN_BUFFER_BYTES bytes had been written and more had been buffered
C37_Witness ==
    /\ FeedDone
    /\ feed.stdin.open
    /\ feed.stdin.stdin_buffer # <<>>
    /\ Len(feed.stdin.written)
           > Len(feed.stdin.stdin_buffer) + STDIN_BUFFER_BYTES
    /\ Len(feed.stdin.passed) > 2


(***************************************************************************)
(* C38.  The total of Hashcat::new and configure's check of it.            *)
(***************************************************************************)
\* seed total * derivation total * passphrase total, in the integers
ProductOfTotals(c) ==
    c.seed_total * c.derivations_total
        * (IF c.passphrase.some THEN c.passphrase.val ELSE 1)

\* Hashcat::new has returned
HashcatBuilt == hc_new # <<>> /\ hc_new.total.some

\* C38: the total of Hashcat::new is the product of the totals of the seed,
\* of the derivations and of the passphrase, if there is one, held at
\* 2^64 - 1 when it is more, and configure returns an error whenever that
\* total is u64::MAX, going on to get_mode only with a smaller one
C38_TotalSaturatesAndAborts ==
    HashcatBuilt =>
        /\ hc_new.total.val = Min2(U64_MAX, ProductOfTotals(hc_new))
        /\ hc_new.total.val = U64_MAX =>
               /\ hc_new.pc \in {"total", "returned"}
               /\ hc_new.pc = "returned" => hc_new.ret = Err
        /\ hc_new.total.val = U64_MAX /\ hc_new.pc = "total" =>
               configure_total(hc_new).ret = Err
        /\ hc_new.pc = "get_mode" =>
               /\ hc_new.ret = <<>>
               /\ ProductOfTotals(hc_new) < U64_MAX

\* configure has returned its error for a product of three totals that is
\* more than u64::MAX, the first multiplication having saturated already
C38_Witness ==
    /\ HashcatBuilt
    /\ hc_new.pc = "returned"
    /\ hc_new.ret = Err
    /\ hc_new.passphrase.some
    /\ hc_new.passphrase.val > 1
    /\ hc_new.seed_total * hc_new.derivations_total > U64_MAX
    /\ hc_new.total.val = U64_MAX


(***************************************************************************)
(* C39.  More anchored words than the combinations count.                  *)
(***************************************************************************)
\* from_args was called with a count k and more than k anchored words
MoreAnchoredThanCombo ==
    /\ ComboCalled
    /\ Cardinality(AnchoredPositions) > args_combo.val

\* C39: Seed::from_args with a combinations count k and more than k
\* anchored words returns an error value, it does not fail on the
\* subtraction k - anchored_count
C39_TooManyAnchorsIsAnError ==
    MoreAnchoredThanCombo => ~args_ret.panics /\ ~args_ret.ret.ok

\* the build without overflow checks: the subtraction wraps and the call
\* returns an error
C39_WrappedToAnError ==
    /\ MoreAnchoredThanCombo
    /\ ~args_ret.panics
    /\ ~args_ret.ret.ok

\* the only calls with a count that panic are those with more anchored
\* words than the count
C39_PanicsOnlyThere ==
    (ComboCalled /\ args_ret.panics) => MoreAnchoredThanCombo

====
